---------------------------- MODULE Spec2Model ----------------------------
(***************************************************************************)
(* Model of the query/cursor engine of kawanet/db-yaml (KagoDB):           *)
(*   lib/core/cursor.js  - the lazy stage chain (Source, Condition,        *)
(*                         Projection, Sort, Offset, Limit) and the        *)
(*                         terminal operations of a Cursor                 *)
(*   core/cursor.js      - the earlier Cursor: parseConditoin, sort        *)
(*   lib/webapi/webapi.js (memory.js part) - the memory storage            *)
(* Storage callbacks of the memory storage are invoked synchronously, so   *)
(* one Cursor operation runs to completion in one step.                    *)
(***************************************************************************)
EXTENDS Integers, Sequences, FiniteSets, TLC

(***************************************************************************)
(* Bounds                                                                  *)
(***************************************************************************)
\* number of identifiers a store of the lifecycle specification can hold
MaxDocs == 2
\* number of Sort/Offset/Limit stages chained onto the Cursor of Spec
MaxStages == 1
\* largest offset / limit argument in Spec
MaxArg == 1
\* number of write / erase operations in one behaviour of Spec
MaxMuts == 1
\* number of items in the stores of SpecSort
MaxSortDocs == 3
\* number of items in the stores of SpecChain
MaxItems == 5
\* number of Sort/Offset/Limit stages chained onto the Cursor of SpecChain
MaxChain == 2
\* largest offset / limit argument in SpecChain
MaxSkip == 3
\* how far below zero Limit.rest may be driven by pulls past the limit
MaxOver == 1
\* a storage call number k in 1..MaxFailAt of one operation can be made to fail
MaxFailAt == 1
\* largest number of the storage call that can be made to fail in SpecDrain
MaxDrainFail == 3
\* number of top-level keys of an update specification in SpecUpdate
MaxOps == 2
\* number of set calls on the class and on the instance in SpecOptions
MaxSets == 2
\* number of instances with the memory storage in SpecMemory
MaxInst == 2
\* number of write and erase calls in SpecMemory
MaxWrites == 2
\* number of pulls (SpecPull) and of each calls (SpecEach) on the Cursor
\* between two rewinds
MaxPulls == 6
\* number of items in the store of SpecPull
MaxPullDocs == 4
\* largest offset / limit argument in SpecPull
MaxPullArg == 2

(***************************************************************************)
(* JavaScript values.  A scalar is a record [t, n, s]: t is the typeof-like *)
(* tag, n the numeric payload, s the string payload.                       *)
(***************************************************************************)
Undef == [t |-> "undefined", n |-> 0, s |-> ""]
Null == [t |-> "null", n |-> 0, s |-> ""]
NaN == [t |-> "nan", n |-> 0, s |-> ""]
Num(k) == [t |-> "number", n |-> k, s |-> ""]
Str(x) == [t |-> "string", n |-> 0, s |-> x]
Bool(b) == [t |-> "boolean", n |-> IF b THEN 1 ELSE 0, s |-> ""]

\* ToBoolean: the falsy values are undefined, null, NaN, 0, "" and false
Truthy(v) ==
  CASE v.t = "undefined" -> FALSE
    [] v.t = "null" -> FALSE
    [] v.t = "nan" -> FALSE
    [] v.t = "number" -> v.n # 0
    [] v.t = "string" -> v.s # ""
    [] v.t = "boolean" -> v.n = 1
    [] OTHER -> TRUE

\* the typeof operator (null is an "object", NaN is a "number")
TypeOf(v) ==
  CASE v.t = "null" -> "object"
    [] v.t = "nan" -> "number"
    [] OTHER -> v.t

\* String(v), as used when a value is concatenated into an error message
ToStr(v) ==
  CASE v.t = "undefined" -> "undefined"
    [] v.t = "null" -> "null"
    [] v.t = "nan" -> "NaN"
    [] v.t = "number" -> ToString(v.n)
    [] v.t = "string" -> v.s
    [] v.t = "boolean" -> (IF v.n = 1 THEN "true" ELSE "false")
    [] v.t = "function" -> "function"
    [] OTHER -> "[object Object]"

\* ToNumber on the strings of the model: "" is 0, a decimal literal is its
\* value, anything else is NaN
StrToNum(x) ==
  CASE x = "" -> Num(0)
    [] x = "0" -> Num(0)
    [] x = "1" -> Num(1)
    [] x = "2" -> Num(2)
    [] x = "3" -> Num(3)
    [] x = "5" -> Num(5)
    [] OTHER -> NaN

\* ToNumber of a primitive
ToNum(v) ==
  CASE v.t = "undefined" -> NaN
    [] v.t = "null" -> Num(0)
    [] v.t = "boolean" -> Num(v.n)
    [] v.t = "string" -> StrToNum(v.s)
    [] OTHER -> v

\* a == b on primitives (abstract equality comparison)
LooseEq(a, b) ==
  LET nullish(v) == v.t \in {"undefined", "null"}
      numeq(x, y) == x.t = "number" /\ y.t = "number" /\ x.n = y.n
  IN  CASE nullish(a) \/ nullish(b) -> nullish(a) /\ nullish(b)
        [] a.t = "nan" \/ b.t = "nan" -> FALSE
        [] a.t = b.t -> a = b
        [] a.t \in {"function", "object"} \/ b.t \in {"function", "object"} -> FALSE
        [] OTHER -> numeq(ToNum(a), ToNum(b))

(***************************************************************************)
(* Documents are functions from the fields they have to scalars; item[key] *)
(* of a missing field is undefined.                                        *)
(***************************************************************************)
Min(x, y) == IF x < y THEN x ELSE y

Get(item, key) == IF key \in DOMAIN item THEN item[key] ELSE Undef

\* an object literal {k1: v1, ...} is the sequence of its [k, v] in key order


\* an argument passed where the code accepts "object or function": a scalar,
\* an object literal q, or a function named f
Arg(v) == [t |-> v.t, n |-> v.n, s |-> v.s, q |-> << >>, f |-> ""]
ObjArg(q) == [t |-> "object", n |-> 0, s |-> "", q |-> q, f |-> ""]
FnArg(f) == [t |-> "function", n |-> 0, s |-> "", q |-> << >>, f |-> f]
NoFn == Arg(Undef)
KV(key, val) == [k |-> key, v |-> val]

\* a < b on primitives (both operands converted with ToNumber)
Less(a, b) ==
  LET x == ToNum(a)
      y == ToNum(b)
  IN  x.t = "number" /\ y.t = "number" /\ x.n < y.n

(***************************************************************************)
(* obop: where / view / order compile an object or a function into a       *)
(* function.  A compiled function is a function value that closes over the *)
(* object it was compiled from (q).                                        *)
(***************************************************************************)
\* the functions a caller of the model passes in
UserFn(f, item) ==
  CASE f = "cheap" -> Less(Get(item, "price"), Num(2))
    [] OTHER -> TRUE

\* obop.where(condition): [ok, fn, e]
where(condition) ==
  CASE condition.t = "function" -> [ok |-> TRUE, fn |-> condition, e |-> ""]
    [] condition.t \in {"undefined", "null"} ->
         [ok |-> TRUE, fn |-> [FnArg("where") EXCEPT !.q = << >>], e |-> ""]
    [] condition.t = "object" ->
         [ok |-> TRUE, fn |-> [FnArg("where") EXCEPT !.q = condition.q], e |-> ""]
    [] OTHER ->
         [ok |-> FALSE, fn |-> NoFn, e |-> "InvalidCondition: " \o ToStr(condition)]

\* obop.view(projection): [ok, fn, e]
view(projection) ==
  CASE projection.t = "function" -> [ok |-> TRUE, fn |-> projection, e |-> ""]
    [] projection.t \in {"undefined", "null"} ->
         [ok |-> TRUE, fn |-> FnArg("through"), e |-> ""]
    [] projection.t = "object" ->
         [ok |-> TRUE, fn |-> [FnArg("view") EXCEPT !.q = projection.q], e |-> ""]
    [] OTHER ->
         [ok |-> FALSE, fn |-> NoFn, e |-> "InvalidProjection: " \o ToStr(projection)]

\* obop.order(order): [ok, fn, e]
order(ord) ==
  CASE ord.t = "function" -> [ok |-> TRUE, fn |-> ord, e |-> ""]
    [] ord.t = "object" ->
         [ok |-> TRUE, fn |-> [FnArg("order") EXCEPT !.q = ord.q], e |-> ""]
    [] OTHER ->
         [ok |-> FALSE, fn |-> NoFn, e |-> "InvalidOrder: " \o ToStr(ord)]

\* condition(item) for a compiled predicate
ApplyWhere(fn, item) ==
  IF fn.f = "where"
  THEN \A i \in 1..Len(fn.q) : LooseEq(Get(item, fn.q[i].k), fn.q[i].v)
  ELSE UserFn(fn.f, item)

\* projection(item) for a compiled transform: the listed fields are retained
ApplyView(fn, item) ==
  IF fn.f = "view"
  THEN LET keep == {fn.q[i].k : i \in {j \in 1..Len(fn.q) : Truthy(fn.q[j].v)}}
       IN  [key \in (DOMAIN item) \cap keep |-> item[key]]
  ELSE item

\* sorter(a, b) for a compiled comparator: the first listed field on which a
\* and b differ decides, in its direction; 0 when none does
RECURSIVE OrderFrom(_, _, _, _)
OrderFrom(q, i, a, b) ==
  IF i > Len(q) THEN 0
  ELSE IF Less(Get(a, q[i].k), Get(b, q[i].k)) THEN 0 - q[i].v.n
  ELSE IF Less(Get(b, q[i].k), Get(a, q[i].k)) THEN q[i].v.n
  ELSE OrderFrom(q, i + 1, a, b)

\* func with the loop left after its first key: ties on the first field are
\* not broken by the second
funcFirstKey(param, i, a, b) ==
  IF i > Min(1, Len(param)) THEN Undef
  ELSE IF Less(Get(a, param[i].k), Get(b, param[i].k))
       THEN Num(0 - ToNum(param[i].v).n)
  ELSE IF Less(Get(b, param[i].k), Get(a, param[i].k)) THEN param[i].v
  ELSE Undef

\* the comparator func(a, b) built by Cursor.prototype.sort(param) of
\* core/cursor.js, from key number i on; falling off the loop returns undefined
RECURSIVE func(_, _, _, _)
func(param, i, a, b) ==
  IF i > Len(param) THEN Undef
  ELSE IF Less(Get(a, param[i].k), Get(b, param[i].k))
       THEN Num(0 - ToNum(param[i].v).n)
  ELSE IF Less(Get(b, param[i].k), Get(a, param[i].k)) THEN param[i].v
  ELSE func(param, i + 1, a, b)

\* the number Array.prototype.sort makes of what a comparator returns:
\* ToNumber of it, and 0 when that is NaN
SortKey(v) == IF ToNum(v).t = "number" THEN ToNum(v).n ELSE 0

\* comparator(a, b) as Array.prototype.sort calls it
ApplyOrder(fn, a, b) ==
  CASE fn.f = "order" -> OrderFrom(fn.q, 1, a, b)
    [] fn.f = "func" -> SortKey(func(fn.q, 1, a, b))
    [] fn.f = "byStock" -> Get(a, "stock").n - Get(b, "stock").n
    [] OTHER -> 0

(***************************************************************************)
(* Array.prototype.sort(comparator): an insertion sort driven by the       *)
(* comparator.  The engine decides where elements that compare equal go:   *)
(* tie = FALSE keeps them in input order, tie = TRUE reverses them.        *)
(***************************************************************************)
RECURSIVE Insert(_, _, _, _)
Insert(sorted, x, fn, tie) ==
  IF sorted = << >> THEN <<x>>
  ELSE LET c == ApplyOrder(fn, x, Head(sorted))
       IN  IF c < 0 \/ (c = 0 /\ tie)
           THEN <<x>> \o sorted
           ELSE <<Head(sorted)>> \o Insert(Tail(sorted), x, fn, tie)

RECURSIVE ArraySort(_, _, _)
ArraySort(list, fn, tie) ==
  IF list = << >> THEN << >>
  ELSE Insert(ArraySort(SubSeq(list, 1, Len(list) - 1), fn, tie),
              list[Len(list)], fn, tie)

(***************************************************************************)
(* The memory storage.  A store is the object holding the items: a         *)
(* sequence of [id, doc] in the order Object.keys lists the identifiers    *)
(* (insertion order).  Every storage call made during one operation is     *)
(* counted in m.calls; the call whose number is env.failAt is answered     *)
(* with an error by the storage.                                           *)
(***************************************************************************)
NoDoc == << >>
StoreIds(store) == [i \in 1..Len(store) |-> store[i].id]
StoreHas(store, id) == \E i \in 1..Len(store) : store[i].id = id
StoreGet(store, id) == store[CHOOSE i \in 1..Len(store) : store[i].id = id].doc

\* the outcome handed to a nextObject callback: (err), (), or (null, item)
Res(m, kind, doc, e) == [m |-> m, k |-> kind, doc |-> doc, e |-> e]
Item(m, doc) == Res(m, "item", doc, "")
EOF(m) == Res(m, "eof", NoDoc, "")
Err(m, e) == Res(m, "err", NoDoc, e)

\* One Cursor operation runs on a machine m: the stages (m.ch), the number
\* of storage calls made so far (m.calls) and the log of what happened, in
\* order (m.log): a storage call and its answer, a pull of stage k by the
\* stage above it (or by the Cursor), the answer of stage k to that pull,
\* an invocation of the callback of each.  The log is kept only on a
\* machine made by Logging; on the others it stays empty.
Entry(c, k, id, r, doc) == [c |-> c, k |-> k, id |-> id, r |-> r, doc |-> doc]
Machine(ch) == [ch |-> ch, calls |-> 0, log |-> << >>, logged |-> FALSE]
Logging(ch) == [Machine(ch) EXCEPT !.logged = TRUE]
Logs(m, c, k, id, r, doc) ==
  IF m.logged THEN [m EXCEPT !.log = Append(@, Entry(c, k, id, r, doc))] ELSE m
Called(m, c, id, r) == [Logs(m, c, 0, id, r, NoDoc) EXCEPT !.calls = @ + 1]

\* collection.read(id, callback)
read(m, env, id) ==
  LET m1 == Called(m, "read", id,
                   IF m.calls + 1 = env.failAt \/ ~StoreHas(env.store, id)
                   THEN "err" ELSE "ok")
  IN  IF m1.calls = env.failAt THEN Err(m1, "StorageFailure")
      ELSE IF StoreHas(env.store, id) THEN Item(m1, StoreGet(env.store, id))
      ELSE Err(m1, "Item not found")

\* collection.index(callback): [m, ok, list]
index(m, env) ==
  LET m1 == Called(m, "index", "", IF m.calls + 1 = env.failAt THEN "err" ELSE "ok")
  IN  IF m1.calls = env.failAt
      THEN [m |-> m1, ok |-> FALSE, list |-> << >>, e |-> "StorageFailure"]
      ELSE [m |-> m1, ok |-> TRUE, list |-> StoreIds(env.store), e |-> ""]

\* write(id, item): an existing key keeps its place, a new key goes last
write(store, id, item) ==
  IF StoreHas(store, id)
  THEN [i \in 1..Len(store) |->
          IF store[i].id = id THEN [id |-> id, doc |-> item] ELSE store[i]]
  ELSE Append(store, [id |-> id, doc |-> item])

\* erase(id) of a stored identifier
erase(store, id) == SelectSeq(store, LAMBDA x : x.id # id)

(***************************************************************************)
(* Stages.  m.ch is the decorator chain: m.ch[1] is the Source and stage k *)
(* wraps stage k - 1 (its this.source); the last one is cursor.source.     *)
(***************************************************************************)
Stage(kind) ==
  [kind |-> kind, fn |-> NoFn, n |-> 0, err |-> "",
   has |-> FALSE, ids |-> << >>, docs |-> << >>, ready |-> FALSE, rest |-> 0]

Source == Stage("Source")
Condition(condition) == [Stage("Condition") EXCEPT !.fn = condition]
Projection(projection) == [Stage("Projection") EXCEPT !.fn = projection]
Sort(ord) ==
  LET c == order(ord)
  IN  IF c.ok THEN [Stage("Sort") EXCEPT !.fn = c.fn]
      ELSE [Stage("Sort") EXCEPT !.err = c.e]
Offset(offset) == [Stage("Offset") EXCEPT !.n = offset]
Limit(limit) == [Stage("Limit") EXCEPT !.n = limit, !.rest = limit]

RECURSIVE nextObject(_, _, _)
RECURSIVE Dispatch(_, _, _)
RECURSIVE ConditionNext(_, _, _)
RECURSIVE OffsetIterator(_, _, _, _)
RECURSIVE toArrayIterator(_, _, _, _)

\* Source.prototype.nextObject shifting two identifiers off this.list and
\* reading the first
SourceShiftTwo(m, env) ==
  IF Len(m.ch[1].ids) = 0 THEN EOF(m)
  ELSE read([m EXCEPT !.ch[1].ids = Tail(Tail(@ \o <<"">>))], env, Head(m.ch[1].ids))

\* Source.prototype.nextObject with this.list set
SourceShift(m, env) ==
  IF Len(m.ch[1].ids) = 0 THEN EOF(m)
  ELSE read([m EXCEPT !.ch[1].ids = Tail(@)], env, Head(m.ch[1].ids))

\* Source.prototype.nextObject
SourceNext(m, env) ==
  IF m.ch[1].has THEN SourceShift(m, env)
  ELSE LET r == index(m, env)
       IN  IF ~r.ok THEN Err(r.m, r.e)
           ELSE SourceShift([r.m EXCEPT !.ch[1].has = TRUE,
                                        !.ch[1].ids = r.list], env)

\* Condition.prototype.nextObject
ConditionNext(m, k, env) ==
  IF TypeOf(m.ch[k].fn) # "function"
  THEN Err(m, "invalid condition: " \o ToStr(m.ch[k].fn))
  ELSE LET r == nextObject(m, k - 1, env)
       IN  IF r.k # "item" THEN r
           ELSE IF ApplyWhere(m.ch[k].fn, r.doc) THEN r
           ELSE ConditionNext(r.m, k, env)

\* Projection.prototype.nextObject
ProjectionNext(m, k, env) ==
  IF TypeOf(m.ch[k].fn) # "function"
  THEN Err(m, "invalid projection: " \o ToStr(m.ch[k].fn))
  ELSE LET r == nextObject(m, k - 1, env)
       IN  IF r.k # "item" THEN r
           ELSE Item(r.m, ApplyView(m.ch[k].fn, r.doc))

\* the iterator of Offset.prototype.nextObject testing rest-- > 0: one item
\* more than offset is skipped
RECURSIVE OffsetIteratorPost(_, _, _, _)
OffsetIteratorPost(m, k, env, rest) ==
  LET r == nextObject(m, k - 1, env)
  IN  IF r.k # "item" THEN r
      ELSE IF rest > 0 THEN OffsetIteratorPost(r.m, k, env, rest - 1)
      ELSE nextObject([r.m EXCEPT !.ch[k].ready = TRUE], k - 1, env)

\* the iterator of Offset.prototype.nextObject, rest items still to skip
OffsetIterator(m, k, env, rest) ==
  LET r == nextObject(m, k - 1, env)
  IN  IF r.k # "item" THEN r
      ELSE IF rest - 1 > 0 THEN OffsetIterator(r.m, k, env, rest - 1)
      ELSE nextObject([r.m EXCEPT !.ch[k].ready = TRUE], k - 1, env)

\* Offset.prototype.nextObject
OffsetNext(m, k, env) ==
  IF m.ch[k].ready \/ m.ch[k].n <= 0
  THEN nextObject(m, k - 1, env)
  ELSE OffsetIterator(m, k, env, m.ch[k].n)

\* Limit.prototype.nextObject testing this.rest-- >= 0
LimitNextOneMore(m, k, env) ==
  LET m1 == [m EXCEPT !.ch[k].rest = @ - 1]
  IN  IF m.ch[k].rest >= 0 THEN nextObject(m1, k - 1, env) ELSE EOF(m1)

\* Limit.prototype.nextObject
LimitNext(m, k, env) ==
  LET m1 == [m EXCEPT !.ch[k].rest = @ - 1]
  IN  IF m.ch[k].rest > 0 THEN nextObject(m1, k - 1, env) ELSE EOF(m1)

\* function toArray(source, callback): [m, ok, list, e]
toArrayIterator(m, k, env, buf) ==
  LET r == nextObject(m, k, env)
  IN  IF r.k = "err" THEN [m |-> r.m, ok |-> FALSE, list |-> << >>, e |-> r.e]
      ELSE IF r.k = "eof" THEN [m |-> r.m, ok |-> TRUE, list |-> buf, e |-> ""]
      ELSE toArrayIterator(r.m, k, env, Append(buf, r.doc))

\* Sort.prototype.nextObject with this.list set
SortShift(m, k) ==
  IF m.ch[k].docs = << >> THEN EOF(m)
  ELSE Item([m EXCEPT !.ch[k].docs = Tail(@)], Head(m.ch[k].docs))

\* Sort.prototype.nextObject
SortNext(m, k, env) ==
  IF m.ch[k].err # "" THEN Err(m, m.ch[k].err)
  ELSE IF m.ch[k].has THEN SortShift(m, k)
  ELSE LET a == toArrayIterator(m, k - 1, env, << >>)
       IN  IF ~a.ok THEN Err(a.m, a.e)
           ELSE SortShift([a.m EXCEPT
                             !.ch[k].has = TRUE,
                             !.ch[k].docs = ArraySort(a.list, m.ch[k].fn, env.tie)],
                          k)

\* this.source.nextObject(callback): the nextObject of the kind of stage k
Dispatch(m, k, env) ==
  CASE m.ch[k].kind = "Source" -> SourceNext(m, env)
    [] m.ch[k].kind = "Condition" -> ConditionNext(m, k, env)
    [] m.ch[k].kind = "Projection" -> ProjectionNext(m, k, env)
    [] m.ch[k].kind = "Sort" -> SortNext(m, k, env)
    [] m.ch[k].kind = "Offset" -> OffsetNext(m, k, env)
    [] m.ch[k].kind = "Limit" -> LimitNext(m, k, env)

\* the callback given to stage k is invoked with r
Answers(k, r) == [r EXCEPT !.m = Logs(@, "answer", k, "", r.k, r.doc)]

\* stage k's nextObject is called and invokes its callback
nextObject(m, k, env) ==
  Answers(k, Dispatch(Logs(m, "pull", k, "", "", NoDoc), k, env))

\* rewind() of a Limit that leaves this.rest as the pulls left it
StageRewindKeepRest(s) ==
  CASE s.kind = "Source" -> [s EXCEPT !.has = FALSE, !.ids = << >>]
    [] s.kind = "Sort" -> [s EXCEPT !.has = FALSE, !.docs = << >>]
    [] s.kind = "Offset" -> [s EXCEPT !.ready = FALSE]
    [] OTHER -> s

\* rewind() of stage k: each stage resets itself and rewinds the one it wraps
StageRewind(s) ==
  CASE s.kind = "Source" -> [s EXCEPT !.has = FALSE, !.ids = << >>]
    [] s.kind = "Sort" -> [s EXCEPT !.has = FALSE, !.docs = << >>]
    [] s.kind = "Offset" -> [s EXCEPT !.ready = FALSE]
    [] s.kind = "Limit" -> [s EXCEPT !.rest = s.n]
    [] OTHER -> s

(***************************************************************************)
(* The Cursor of lib/core/cursor.js.  err is this._error ("" when unset),  *)
(* hasIndex/idx are this._index and hasArr/arr are this._toArray.          *)
(***************************************************************************)
\* function Cursor(collection, condition, projection)
Cursor(condition, projection) ==
  LET c == where(condition)
      e1 == IF Truthy(condition) /\ ~c.ok THEN c.e ELSE ""
      ch1 == IF Truthy(condition) /\ c.ok /\ Truthy(c.fn)
             THEN <<Source, Condition(c.fn)>> ELSE <<Source>>
      p == view(projection)
      e2 == IF Truthy(projection) /\ ~p.ok THEN p.e ELSE e1
      ch2 == IF Truthy(projection) /\ p.ok /\ Truthy(p.fn)
             THEN Append(ch1, Projection(p.fn)) ELSE ch1
  IN  [ch |-> ch2, err |-> e2,
       hasIndex |-> FALSE, idx |-> << >>, hasArr |-> FALSE, arr |-> << >>]

\* the outcome of one Cursor operation: the Cursor afterwards, the number of
\* storage calls it made, and what its callback received.  same tells whether
\* the array the callback received is the array object the Cursor keeps
Out(c, calls, kind, list, ids, num, e) ==
  [cur |-> c, calls |-> calls, k |-> kind, list |-> list, ids |-> ids,
   num |-> num, e |-> e, same |-> FALSE]

\* callback(null, memo): the callback receives the memoized array itself
Itself(out) == [out EXCEPT !.same = TRUE]

\* the memoized array itself in the place of its copy
CloneSkipped(out) == [out EXCEPT !.same = TRUE]

\* list = [].concat(memo); callback(null, list): the callback receives a new
\* array with the elements of the memoized one
Clone(out) == [out EXCEPT !.same = FALSE]
Fail(c, calls, e) == Out(c, calls, "err", << >>, << >>, 0, e)

\* the callback of Proto.prototype.nextObject on the Cursor
nextDone(c, r) ==
  Out([c EXCEPT !.ch = r.m.ch], r.m.calls, r.k,
      IF r.k = "item" THEN <<r.doc>> ELSE << >>, << >>, 0, r.e)

\* Proto.prototype.nextObject on the Cursor
CursorNextObject(c, env) ==
  nextDone(c, nextObject(Machine(c.ch), Len(c.ch), env))

\* Proto.prototype.rewind on the Cursor
CursorRewind(c) == [c EXCEPT !.ch = [i \in 1..Len(c.ch) |-> StageRewind(c.ch[i])]]

\* Cursor.prototype.index
CursorIndex(c, env) ==
  IF c.err # "" THEN Fail(c, 0, c.err)
  ELSE IF c.hasIndex THEN Clone(Out(c, 0, "ok", << >>, c.idx, 0, ""))
  ELSE LET r == index(Machine(c.ch), env)
       IN  IF ~r.ok THEN Fail(c, r.m.calls, r.e)
           ELSE Clone(Out([c EXCEPT !.hasIndex = TRUE, !.idx = r.list],
                          r.m.calls, "ok", << >>, r.list, 0, ""))

\* the callback of Cursor.prototype.toArray assigning this._toArray before it
\* tests err
toArrayDoneKeep(c, a) ==
  IF ~a.ok
  THEN Fail([c EXCEPT !.ch = a.m.ch, !.hasArr = TRUE, !.arr = a.list], a.m.calls, a.e)
  ELSE Clone(Out([c EXCEPT !.ch = a.m.ch, !.hasArr = TRUE, !.arr = a.list],
                 a.m.calls, "ok", a.list, << >>, 0, ""))

\* the callback Cursor.prototype.toArray hands to toArray(source, callback)
toArrayDone(c, a) ==
  IF ~a.ok THEN Fail([c EXCEPT !.ch = a.m.ch], a.m.calls, a.e)
  ELSE Clone(Out([c EXCEPT !.ch = a.m.ch, !.hasArr = TRUE, !.arr = a.list],
                 a.m.calls, "ok", a.list, << >>, 0, ""))

\* Cursor.prototype.toArray without the test of this._toArray: every call drains
CursorToArrayNoMemo(c, env) ==
  IF c.err # "" THEN Fail(c, 0, c.err)
  ELSE toArrayDone(c, toArrayIterator(Machine(c.ch), Len(c.ch), env, << >>))

\* Cursor.prototype.toArray
CursorToArray(c, env) ==
  IF c.err # "" THEN Fail(c, 0, c.err)
  ELSE IF c.hasArr THEN Clone(Out(c, 0, "ok", c.arr, << >>, 0, ""))
  ELSE toArrayDone(c, toArrayIterator(Machine(c.ch), Len(c.ch), env, << >>))

\* the iterator of Cursor.prototype.each invoking callback for items only
InvokedForItems(r) ==
  IF r.k = "item"
  THEN [r EXCEPT !.m = Logs(@, "callback", 0, "", r.k, r.doc)]
  ELSE r

\* callback(err, item) in the iterator of Cursor.prototype.each
Invoked(r) == [r EXCEPT !.m = Logs(@, "callback", 0, "", r.k, r.doc)]

\* the iterator of Cursor.prototype.each: buf is what the callback received
RECURSIVE eachIterator(_, _, _)
eachIterator(m, env, buf) ==
  LET r == Invoked(nextObject(m, Len(m.ch), env))
  IN  IF r.k = "item" THEN eachIterator(r.m, env, Append(buf, r.doc))
      ELSE [m |-> r.m, k |-> r.k, list |-> buf, e |-> r.e]

\* the end of Cursor.prototype.each: callback() or callback(err)
eachDone(c, a) ==
  Out([c EXCEPT !.ch = a.m.ch], a.m.calls,
      IF a.k = "eof" THEN "ok" ELSE "err", a.list, << >>, 0, a.e)

\* Cursor.prototype.each
CursorEach(c, env) ==
  IF c.err # "" THEN Fail(c, 0, c.err)
  ELSE eachDone(c, eachIterator(Machine(c.ch), env, << >>))

\* the callback Cursor.prototype.count hands to index (fast) or to toArray
countDone(r, fast) ==
  IF r.k = "err" THEN Fail(r.cur, r.calls, r.e)
  ELSE Out(r.cur, r.calls, "ok", << >>, << >>,
           IF fast THEN Len(r.ids) ELSE Len(r.list), "")

\* Cursor.prototype.count
CursorCount(c, env) ==
  IF c.err # "" THEN Fail(c, 0, c.err)
  ELSE IF Len(c.ch) = 1 THEN countDone(CursorIndex(c, env), TRUE)
  ELSE countDone(CursorToArray(c, env), FALSE)

\* Cursor.prototype.limit putting the Limit under the head instead of around it
CursorLimitUnder(c, limit) ==
  IF Len(c.ch) = 1 THEN [c EXCEPT !.ch = Append(@, Limit(limit))]
  ELSE [c EXCEPT !.ch = SubSeq(@, 1, Len(@) - 1) \o <<Limit(limit), @[Len(@)]>>]

\* Cursor.prototype.sort / offset / limit
CursorSort(c, ord) == [c EXCEPT !.ch = Append(@, Sort(ord))]
CursorOffset(c, offset) == [c EXCEPT !.ch = Append(@, Offset(offset))]
CursorLimit(c, limit) == [c EXCEPT !.ch = Append(@, Limit(limit))]

(***************************************************************************)
(* The state machine: one collection on the memory storage and one Cursor  *)
(* on it.                                                                  *)
(*   store  the items of the memory storage                                *)
(*   cur    the Cursor                                                     *)
(*   args   the condition and projection the Cursor was constructed with   *)
(*   last   the last operation and what its callback received              *)
(*   first  the list delivered by the first successful toArray since       *)
(*          construction or rewind                                         *)
(*   muts   number of write/erase operations so far                        *)
(***************************************************************************)
VARIABLES store, cur, args, last, first, muts
vars == <<store, cur, args, last, first, muts>>

IdSeq == <<"a", "b", "c", "d", "e", "f", "g">>
IdsUpTo(n) == {IdSeq[i] : i \in 1..n}
Doc(price, stock) == [price |-> Num(price), stock |-> Num(stock)]
DocSeq == <<Doc(2, 1), Doc(1, 5), Doc(1, 2), Doc(2, 5), Doc(1, 1), Doc(2, 2), Doc(3, 1)>>
DocSet == {DocSeq[1], DocSeq[2]}

\* the conditions, projections and orders callers pass
CondArgs ==
  {Arg(Undef), Arg(Null), ObjArg(<< >>), ObjArg(<<KV("price", Num(1))>>),
   FnArg("cheap"), Arg(Num(5)), Arg(Str("x")), Arg(Bool(TRUE)),
   Arg(Num(0)), Arg(Str("")), Arg(Bool(FALSE))}
ProjArgs == {Arg(Undef), ObjArg(<<KV("price", Num(1))>>), Arg(Num(7))}
SortParams ==
  {ObjArg(<<KV("price", Num(1)), KV("stock", Num(-1))>>),
   ObjArg(<<KV("stock", Num(1)), KV("price", Num(1))>>),
   ObjArg(<<KV("price", Num(-1))>>)}
OrderArgs ==
  {ObjArg(<<KV("price", Num(1)), KV("stock", Num(-1))>>),
   ObjArg(<<KV("price", Num(1))>>), Arg(Num(3))}

\* the store with identifiers a, b, ... written in that order
InitStore(n) == [i \in 1..n |-> [id |-> IdSeq[i], doc |-> DocSeq[i]]]

\* the (condition, projection) pairs a Cursor is constructed with
FindArgs ==
  [condition : CondArgs, projection : {Arg(Undef)}, chain : {<< >>}]
    \cup [condition : {Arg(Undef), ObjArg(<<KV("price", Num(1))>>), Arg(Num(5))},
          projection : ProjArgs, chain : {<< >>}]

\* one call of sort(ord), offset(n) or limit(n), as recorded in args.chain
Call(op, n, ord) == [op |-> op, n |-> n, ord |-> ord]

Done(op, r) ==
  [op |-> op, k |-> r.k, list |-> r.list, ids |-> r.ids, num |-> r.num,
   calls |-> r.calls, e |-> r.e, same |-> r.same]
Quiet(op) ==
  [op |-> op, k |-> "", list |-> << >>, ids |-> << >>, num |-> 0,
   calls |-> 0, e |-> "", same |-> FALSE]

\* Limit.rest only falls while pulls go on: keep it within MaxOver below zero
InBounds(c) == \A i \in 1..Len(c.ch) : c.ch[i].rest >= 0 - MaxOver

Init ==
  /\ store = InitStore(MaxDocs)
  /\ args \in FindArgs
  /\ cur = Cursor(args.condition, args.projection)
  /\ last = Quiet("new")
  /\ first = [has |-> FALSE, list |-> << >>]
  /\ muts = 0

\* what one operation meets: the store, the storage call that fails (0: none)
\* and the engine's placement of equal elements, which only a Sort consults
HasSort(c) == \E i \in 1..Len(c.ch) : c.ch[i].kind = "Sort" /\ c.ch[i].err = ""
Envs ==
  [store : {store}, failAt : 0..MaxFailAt,
   tie : IF HasSort(cur) THEN BOOLEAN ELSE {FALSE}]

Apply(op, r) ==
  /\ InBounds(r.cur)
  /\ cur' = r.cur
  /\ last' = Done(op, r)
  /\ UNCHANGED <<store, args, muts>>

NextObjectOp ==
  \E env \in Envs :
    /\ Apply("nextObject", CursorNextObject(cur, env))
    /\ UNCHANGED first

ToArrayOp ==
  \E env \in Envs :
    /\ Apply("toArray", CursorToArray(cur, env))
    /\ first' = IF last'.k = "ok" /\ ~first.has
                THEN [has |-> TRUE, list |-> last'.list] ELSE first

EachOp ==
  \E env \in Envs :
    /\ Apply("each", CursorEach(cur, env))
    /\ UNCHANGED first

CountOp ==
  \E env \in Envs :
    /\ Apply("count", CursorCount(cur, env))
    /\ UNCHANGED first

IndexOp ==
  \E env \in Envs :
    /\ Apply("index", CursorIndex(cur, env))
    /\ UNCHANGED first

RewindOp ==
  /\ cur' = CursorRewind(cur)
  /\ last' = Quiet("rewind")
  /\ first' = [has |-> FALSE, list |-> << >>]
  /\ UNCHANGED <<store, args, muts>>

\* sort / offset / limit are chained while the Cursor is being built, before
\* anything was pulled from it
Chained(c) ==
  Cardinality({i \in 1..Len(c.ch) : c.ch[i].kind \in {"Sort", "Offset", "Limit"}})
Fresh(c) ==
  /\ ~c.hasArr
  /\ ~c.hasIndex
  /\ \A i \in 1..Len(c.ch) :
       /\ ~c.ch[i].has
       /\ ~c.ch[i].ready
       /\ c.ch[i].kind = "Limit" => c.ch[i].rest = c.ch[i].n
Building(c) == Fresh(c) /\ Chained(c) < MaxStages

SortOp ==
  /\ Building(cur)
  /\ \E ord \in OrderArgs :
       /\ cur' = CursorSort(cur, ord)
       /\ args' = [args EXCEPT !.chain = Append(@, Call("sort", 0, ord))]
  /\ last' = Quiet("sort")
  /\ UNCHANGED <<store, first, muts>>

OffsetOp ==
  /\ Building(cur)
  /\ \E offset \in 0..MaxArg :
       /\ cur' = CursorOffset(cur, offset)
       /\ args' = [args EXCEPT !.chain = Append(@, Call("offset", offset, NoFn))]
  /\ last' = Quiet("offset")
  /\ UNCHANGED <<store, first, muts>>

LimitOp ==
  /\ Building(cur)
  /\ \E limit \in 0..MaxArg :
       /\ cur' = CursorLimit(cur, limit)
       /\ args' = [args EXCEPT !.chain = Append(@, Call("limit", limit, NoFn))]
  /\ last' = Quiet("limit")
  /\ UNCHANGED <<store, first, muts>>

WriteOp ==
  /\ muts < MaxMuts
  /\ \E id \in IdsUpTo(MaxDocs), item \in DocSet : store' = write(store, id, item)
  /\ muts' = muts + 1
  /\ last' = Quiet("write")
  /\ UNCHANGED <<cur, args, first>>

EraseOp ==
  /\ muts < MaxMuts
  /\ \E id \in IdsUpTo(MaxDocs) :
       /\ StoreHas(store, id)
       /\ store' = erase(store, id)
  /\ muts' = muts + 1
  /\ last' = Quiet("erase")
  /\ UNCHANGED <<cur, args, first>>

Next ==
  \/ NextObjectOp
  \/ ToArrayOp
  \/ EachOp
  \/ CountOp
  \/ IndexOp
  \/ RewindOp
  \/ SortOp
  \/ OffsetOp
  \/ LimitOp
  \/ WriteOp
  \/ EraseOp

Spec == Init /\ [][Next]_vars

\* the Cursor as find() returns it, with no stage chained onto it: its terminal
\* operations, rewind, and the writes and erases on the store
NextMemo ==
  \/ NextObjectOp
  \/ ToArrayOp
  \/ EachOp
  \/ CountOp
  \/ IndexOp
  \/ RewindOp
  \/ WriteOp
  \/ EraseOp

SpecMemo == Init /\ [][NextMemo]_vars

(***************************************************************************)
(* Claims about the Cursor of lib/core/cursor.js, checked under Spec and    *)
(* SpecMemo                                                                *)
(***************************************************************************)
Terminal == {"toArray", "count", "each"}

\* C1: once a toArray has succeeded, every later toArray without a rewind in
\* between succeeds with a list equal to the first one and makes no storage
\* call, whatever was written to or erased from the store meanwhile
C1_ToArrayMemoized ==
  [][(first.has /\ last'.op = "toArray")
       => (last'.k = "ok" /\ last'.list = first.list /\ last'.calls = 0)]_vars

\* a memoized toArray answered with a list the store no longer holds
C1_Witness ==
  /\ first.has
  /\ last.op = "toArray"
  /\ last.k = "ok"
  /\ last.calls = 0
  /\ muts > 0
  /\ Len(last.list) > Len(store)

\* a condition that is neither null/absent, nor a map, nor a function
InvalidCondition(condition) ==
  condition.t \notin {"undefined", "null", "object", "function"}

\* C2: a Cursor built with an invalid condition fails toArray, count and each
\* with an error and never calls the storage
C2_InvalidConditionFails ==
  InvalidCondition(args.condition)
    => /\ last.calls = 0
       /\ last.op \in Terminal => (last.k = "err" /\ last.e # "")

\* C3: count delivers the length of the list toArray delivers on the same
\* Cursor (stated for a count that directly follows a toArray)
C3_CountIsToArrayLength ==
  [][(last.op = "toArray" /\ last.k = "ok" /\ last'.op = "count" /\ last'.k = "ok")
       => last'.num = Len(last.list)]_vars

\* C9: a terminal operation that follows a completed each, with no rewind and
\* no store change in between, observes what the each delivered and makes no
\* storage call
C9_TerminalAfterEach ==
  [][(last.op = "each" /\ last.k = "ok" /\ last'.op \in Terminal /\ last'.k = "ok")
       => /\ last'.calls = 0
          /\ last'.op \in {"each", "toArray"} => last'.list = last.list
          /\ last'.op = "count" => last'.num = Len(last.list)]_vars

\* C10: with a latched compilation error every operation - nextObject,
\* toArray, each, count, index - reports that error and makes no storage call
C10_LatchedErrorEverywhere ==
  (cur.err # "" /\ last.op \in Terminal \cup {"nextObject", "index"})
    => (last.k = "err" /\ last.e = cur.err /\ last.calls = 0)

(***************************************************************************)
(* SpecChain: a Cursor without condition and projection over a store of up *)
(* to MaxItems items that nobody writes to; sort, offset and limit are     *)
(* chained in any order, then the Cursor is drained and rewound.           *)
(***************************************************************************)
ChainBuilding(c) == Fresh(c) /\ Chained(c) < MaxChain

InitChain ==
  /\ \E n \in 0..MaxItems : store = InitStore(n)
  /\ args = [condition |-> Arg(Undef), projection |-> Arg(Undef), chain |-> << >>]
  /\ cur = Cursor(args.condition, args.projection)
  /\ last = Quiet("new")
  /\ first = [has |-> FALSE, list |-> << >>]
  /\ muts = 0

ChainSort ==
  /\ ChainBuilding(cur)
  /\ \E ord \in OrderArgs :
       /\ cur' = CursorSort(cur, ord)
       /\ args' = [args EXCEPT !.chain = Append(@, Call("sort", 0, ord))]
  /\ last' = Quiet("sort")
  /\ UNCHANGED <<store, first, muts>>

ChainOffset ==
  /\ ChainBuilding(cur)
  /\ \E offset \in 0..MaxSkip :
       /\ cur' = CursorOffset(cur, offset)
       /\ args' = [args EXCEPT !.chain = Append(@, Call("offset", offset, NoFn))]
  /\ last' = Quiet("offset")
  /\ UNCHANGED <<store, first, muts>>

ChainLimit ==
  /\ ChainBuilding(cur)
  /\ \E limit \in 0..MaxSkip :
       /\ cur' = CursorLimit(cur, limit)
       /\ args' = [args EXCEPT !.chain = Append(@, Call("limit", limit, NoFn))]
  /\ last' = Quiet("limit")
  /\ UNCHANGED <<store, first, muts>>

NextChain ==
  \/ ChainSort
  \/ ChainOffset
  \/ ChainLimit
  \/ ToArrayOp
  \/ RewindOp

SpecChain == InitChain /\ [][NextChain]_vars

(***************************************************************************)
(* Claims about chained stages, checked under SpecChain                    *)
(***************************************************************************)
Count(list, x) == Cardinality({i \in 1..Len(list) : list[i] = x})
Elems(list) == {list[i] : i \in 1..Len(list)}

\* the last two chain methods called were k1(..) and then k2(..)
Top2(k1, k2) ==
  /\ Len(args.chain) >= 2
  /\ args.chain[Len(args.chain) - 1].op = k1
  /\ args.chain[Len(args.chain)].op = k2
Under == args.chain[Len(args.chain) - 1]
Top == args.chain[Len(args.chain)]

\* the Cursor after the chain methods of calls, called in that order
RECURSIVE Replay(_, _)
Replay(c, calls) ==
  IF calls = << >> THEN c
  ELSE LET call == Head(calls)
       IN  Replay(CASE call.op = "sort" -> CursorSort(c, call.ord)
                    [] call.op = "offset" -> CursorOffset(c, call.n)
                    [] call.op = "limit" -> CursorLimit(c, call.n),
                  Tail(calls))

\* what a Cursor built like cur, but without the last two chain methods,
\* delivers when drained
Upstream(tie) ==
  LET c == Replay(Cursor(args.condition, args.projection),
                  SubSeq(args.chain, 1, Len(args.chain) - 2))
  IN  toArrayIterator(Machine(c.ch), Len(c.ch),
                      [store |-> store, failAt |-> 0, tie |-> tie], << >>)

\* a Cursor about to be drained by a toArray that meets no storage failure
Drains(c) == Fresh(c) /\ last'.op = "toArray" /\ last'.e # "StorageFailure"

\* list is in the order of the compiled comparator fn
Ordered(list, fn) ==
  \A i, j \in 1..Len(list) : i < j => ApplyOrder(fn, list[i], list[j]) <= 0
\* list holds the same items as src, each as often
Permutation(list, src) ==
  /\ Len(list) = Len(src)
  /\ \A x \in Elems(src) : Count(list, x) = Count(src, x)

\* C4: offset(a).limit(b).toArray delivers the upstream items at positions
\* a+1 .. min(a+b, n) in upstream order, and the empty list without an error
\* when a >= n
C4_OffsetThenLimit ==
  [][(Drains(cur) /\ Top2("offset", "limit") /\ Upstream(FALSE).ok)
       => \E tie \in BOOLEAN :
            LET up == Upstream(tie).list
            IN  /\ last'.k = "ok"
                /\ last'.list = SubSeq(up, Under.n + 1, Min(Under.n + Top.n, Len(up)))
                /\ Under.n >= Len(up) => last'.list = << >>]_vars

\* offset(2).limit(1) over five items has delivered exactly the third
C4_Witness ==
  /\ Len(store) = 5
  /\ args.chain = <<Call("offset", 2, NoFn), Call("limit", 1, NoFn)>>
  /\ last.op = "toArray"
  /\ last.calls > 0
  /\ last.list = <<store[3].doc>>

\* C5: each chain method wraps the stage that is the head when it is called:
\* limit(b).offset(a) delivers positions a+1 .. b, offset(a).limit(b) delivers
\* a+1 .. a+b, limit(b).sort(o) delivers the first b items sorted, and
\* sort(o).limit(b) delivers the b smallest in order
C5_WrapsHeadInCallOrder ==
  [][(Drains(cur) /\ Len(args.chain) >= 2 /\ Upstream(FALSE).ok)
       => \E tie \in BOOLEAN :
            LET up == Upstream(tie).list
                n == Len(up)
                out == last'.list
            IN  /\ Top2("limit", "offset") =>
                     /\ last'.k = "ok"
                     /\ out = SubSeq(up, Top.n + 1, Min(Under.n, n))
                /\ Top2("offset", "limit") =>
                     /\ last'.k = "ok"
                     /\ out = SubSeq(up, Under.n + 1, Min(Under.n + Top.n, n))
                /\ (Top2("limit", "sort") /\ order(Top.ord).ok) =>
                     /\ last'.k = "ok"
                     /\ Ordered(out, order(Top.ord).fn)
                     /\ Permutation(out, SubSeq(up, 1, Min(Under.n, n)))
                /\ (Top2("sort", "limit") /\ order(Under.ord).ok) =>
                     /\ last'.k = "ok"
                     /\ Len(out) = Min(Top.n, n)
                     /\ Ordered(out, order(Under.ord).fn)
                     /\ \A x \in Elems(up) :
                          /\ Count(out, x) <= Count(up, x)
                          /\ Count(out, x) < Count(up, x) =>
                               \A i \in 1..Len(out) :
                                 ApplyOrder(order(Under.ord).fn, out[i], x) <= 0]_vars

\* limit(2).sort({price: 1, stock: -1}) over three or more items has delivered
\* the first two items only, and not the two smallest
C5_Witness ==
  /\ Len(store) >= 3
  /\ args.chain = <<Call("limit", 2, NoFn),
                    Call("sort", 0, ObjArg(<<KV("price", Num(1)), KV("stock", Num(-1))>>))>>
  /\ last.op = "toArray"
  /\ last.calls > 0
  /\ last.list = <<store[2].doc, store[1].doc>>

(***************************************************************************)
(* core/cursor.js: parseConditoin, find and the earlier Cursor, which      *)
(* reads every item, keeps those the condition hits, and then applies the  *)
(* sort, offset and limit filters to the whole list.                       *)
(***************************************************************************)
\* the loop of the "more conditions" predicate, from key number i on
RECURSIVE moreConditions(_, _, _)
moreConditions(condition, i, item) ==
  IF i > Len(condition) THEN TRUE
  ELSE IF ~LooseEq(Get(item, condition[i].k), condition[i].v) THEN FALSE
  ELSE moreConditions(condition, i + 1, item)

\* parseConditoin(condition): [ok, fn, e]; the three predicates it builds
\* are the functions named "every", "one" and "more" closing over condition
parseConditoin(condition) ==
  IF TypeOf(condition) = "function" THEN [ok |-> TRUE, fn |-> condition, e |-> ""]
  ELSE LET c == IF Truthy(condition) THEN condition ELSE ObjArg(<< >>)
       IN  IF TypeOf(c) # "object"
           THEN [ok |-> FALSE, fn |-> NoFn, e |-> "unknown condition: " \o ToStr(c)]
           ELSE IF Len(c.q) = 0
           THEN [ok |-> TRUE, fn |-> FnArg("every"), e |-> ""]
           ELSE IF Len(c.q) = 1
           THEN [ok |-> TRUE, fn |-> [FnArg("one") EXCEPT !.q = c.q], e |-> ""]
           ELSE [ok |-> TRUE, fn |-> [FnArg("more") EXCEPT !.q = c.q], e |-> ""]

\* condition(item, next) with === in the one-field predicate
CallConditionStrict(fn, item) ==
  CASE fn.f = "every" -> TRUE
    [] fn.f = "one" -> Get(item, fn.q[1].k) = fn.q[1].v
    [] fn.f = "more" -> moreConditions(fn.q, 1, item)
    [] OTHER -> UserFn(fn.f, item)

\* condition(item, next): the hit handed to next
CallCondition(fn, item) ==
  CASE fn.f = "every" -> TRUE
    [] fn.f = "one" -> LooseEq(Get(item, fn.q[1].k), fn.q[1].v)
    [] fn.f = "more" -> moreConditions(fn.q, 1, item)
    [] OTHER -> UserFn(fn.f, item)

\* function Cursor(collection, condition) of core/cursor.js
CoreCursor(condition) ==
  [found |-> TRUE, condition |-> condition,
   hasSort |-> FALSE, sort |-> NoFn, hasOffset |-> FALSE, offset |-> 0,
   hasLimit |-> FALSE, limit |-> 0,
   hasKeys |-> FALSE, keys |-> << >>, hasValues |-> FALSE, values |-> << >>]
NoCursor == [CoreCursor(NoFn) EXCEPT !.found = FALSE]

\* Cursor.prototype.sort / offset / limit of core/cursor.js
CoreSort(c, param) ==
  [c EXCEPT !.hasSort = TRUE, !.sort = [FnArg("func") EXCEPT !.q = param.q]]
CoreOffset(c, offset) == [c EXCEPT !.hasOffset = TRUE, !.offset = offset]
CoreLimit(c, limit) == [c EXCEPT !.hasLimit = TRUE, !.limit = limit]

\* list.splice(offset) and list.splice(0, limit): the items removed
SpliceFrom(list, offset) == SubSeq(list, offset + 1, Len(list))
SpliceFirst(list, limit) == SubSeq(list, 1, Min(limit, Len(list)))

\* Cursor.prototype.keys of core/cursor.js: [cur, m, ok, list, e]
CoreKeys(c, env) ==
  IF c.hasKeys
  THEN [cur |-> c, calls |-> 0, ok |-> TRUE, list |-> c.keys, e |-> ""]
  ELSE LET r == index([calls |-> 0, log |-> << >>, logged |-> FALSE], env)
       IN  [cur |-> [c EXCEPT !.hasKeys = r.ok, !.keys = r.list],
            calls |-> r.m.calls, ok |-> r.ok, list |-> r.list, e |-> r.e]

\* utils.eachSeries(list, each, end) with the each of toArray: read the
\* items one after the other, keep the hits, stop at the first error
RECURSIVE CoreEach(_, _, _, _, _)
CoreEach(list, fn, m, env, buf) ==
  IF list = << >> THEN [m |-> m, buf |-> buf, e |-> ""]
  ELSE LET r == read(m, env, Head(list))
       IN  IF r.k = "err" THEN [m |-> r.m, buf |-> buf, e |-> r.e]
           ELSE CoreEach(Tail(list), fn, r.m, env,
                         IF CallCondition(fn, r.doc) THEN Append(buf, r.doc) ELSE buf)

\* the end(err) of toArray: the filters in the order sort, offset, limit
CoreEnd(c, buf, tie) ==
  LET b1 == IF c.hasSort THEN ArraySort(buf, c.sort, tie) ELSE buf
      b2 == IF c.hasOffset THEN SpliceFrom(b1, c.offset) ELSE b1
  IN  IF c.hasLimit THEN SpliceFirst(b2, c.limit) ELSE b2

\* Cursor.prototype.toArray of core/cursor.js
CoreToArray(c, env) ==
  IF c.hasValues THEN Itself(Out(c, 0, "ok", c.values, << >>, 0, ""))
  ELSE LET k == CoreKeys(c, env)
       IN  IF ~k.ok THEN Fail(k.cur, k.calls, k.e)
           ELSE LET a == CoreEach(k.list, c.condition, [calls |-> k.calls, log |-> << >>, logged |-> FALSE], env, << >>)
                    buf == CoreEnd(c, a.buf, env.tie)
                    c1 == [k.cur EXCEPT !.hasValues = TRUE, !.values = buf]
                IN  Itself(Out(c1, a.m.calls, IF a.e = "" THEN "ok" ELSE "err",
                               buf, << >>, 0, a.e))

\* Cursor.prototype.count of core/cursor.js
CoreCount(c, env) ==
  LET k == CoreKeys(c, env)
  IN  IF ~k.ok THEN Fail(k.cur, k.calls, k.e)
      ELSE Out(k.cur, k.calls, "ok", << >>, << >>, Len(k.list), "")

(***************************************************************************)
(* The collection and Cursor of core/cursor.js as a state machine.  cur is *)
(* NoCursor until find has built the Cursor.  SpecWhere draws a condition  *)
(* and a one-item store and applies the compiled predicate through         *)
(* find / toArray; SpecSort draws a store and sets the filters.            *)
(***************************************************************************)
\* the storage of these two specifications answers every call
CoreEnvs ==
  [store : {store}, failAt : {0},
   tie : IF cur.hasSort THEN BOOLEAN ELSE {FALSE}]

\* find(condition, callback): a condition that does not compile is thrown
FindOp ==
  /\ ~cur.found
  /\ last.op = "new"
  /\ LET c == parseConditoin(args.condition)
     IN  /\ cur' = IF c.ok THEN CoreCursor(c.fn) ELSE cur
         /\ last' = [Quiet("find") EXCEPT !.k = IF c.ok THEN "ok" ELSE "throw",
                                          !.e = c.e]
  /\ UNCHANGED <<store, args, first, muts>>

CoreApply(op, r) ==
  /\ cur.found
  /\ cur' = r.cur
  /\ last' = Done(op, r)
  /\ UNCHANGED <<store, args, first, muts>>

CoreToArrayOp == \E env \in CoreEnvs : CoreApply("toArray", CoreToArray(cur, env))
CoreCountOp == \E env \in CoreEnvs : CoreApply("count", CoreCount(cur, env))

CoreBuilding == cur.found /\ ~cur.hasValues /\ ~cur.hasKeys

CoreSortOp ==
  /\ CoreBuilding
  /\ ~cur.hasSort
  /\ \E param \in SortParams : cur' = CoreSort(cur, param)
  /\ last' = Quiet("sort")
  /\ UNCHANGED <<store, args, first, muts>>

CoreOffsetOp ==
  /\ CoreBuilding
  /\ ~cur.hasOffset
  /\ \E offset \in 1..MaxArg : cur' = CoreOffset(cur, offset)
  /\ last' = Quiet("offset")
  /\ UNCHANGED <<store, args, first, muts>>

CoreLimitOp ==
  /\ CoreBuilding
  /\ ~cur.hasLimit
  /\ \E limit \in 1..MaxArg : cur' = CoreLimit(cur, limit)
  /\ last' = Quiet("limit")
  /\ UNCHANGED <<store, args, first, muts>>

\* the values a field of a SpecWhere item or condition takes
WhereVals == {Num(1), Str("1"), Num(2), Null, Num(0), Str("")}
Fields == {"price", "stock"}
WhereDocs == UNION {[fs -> WhereVals] : fs \in SUBSET Fields}
WhereConds ==
  {ObjArg(<< >>)}
    \cup {ObjArg(<<KV(k, v)>>) : k \in Fields, v \in WhereVals \cup {Undef}}
    \cup {ObjArg(<<KV("price", v), KV("stock", w)>>) : v, w \in WhereVals}
    \cup {Arg(v) : v \in {Undef, Null, NaN, Num(0), Str(""), Bool(FALSE),
                         Num(5), Str("x"), Bool(TRUE)}}
    \cup {FnArg("cheap")}

InitCore ==
  /\ cur = NoCursor
  /\ last = Quiet("new")
  /\ first = [has |-> FALSE, list |-> << >>]
  /\ muts = 0

InitWhere ==
  /\ \E item \in WhereDocs : store = <<[id |-> "a", doc |-> item]>>
  /\ \E condition \in WhereConds :
       args = [condition |-> condition, projection |-> Arg(Undef), chain |-> << >>]
  /\ InitCore

NextWhere ==
  \/ FindOp
  \/ CoreToArrayOp
  \/ CoreCountOp

SpecWhere == InitWhere /\ [][NextWhere]_vars

SortDocs == {Doc(p, s) : p \in {1, 2}, s \in {1, 2, 5}}
SortStores ==
  UNION {{[i \in 1..k |-> [id |-> IdSeq[i], doc |-> d[i]]] : d \in [1..k -> SortDocs]}
         : k \in 0..MaxSortDocs}

InitSort ==
  /\ store \in SortStores
  /\ \E condition \in {Arg(Undef), FnArg("cheap")} :
       args = [condition |-> condition, projection |-> Arg(Undef), chain |-> << >>]
  /\ InitCore

NextSort ==
  \/ FindOp
  \/ CoreSortOp
  \/ CoreOffsetOp
  \/ CoreLimitOp
  \/ CoreToArrayOp
  \/ CoreCountOp

SpecSort == InitSort /\ [][NextSort]_vars

(***************************************************************************)
(* Claims about core/cursor.js, checked under SpecSort and SpecWhere       *)
(***************************************************************************)
StoreDocs == [i \in 1..Len(store) |-> store[i].doc]
Hits == SelectSeq(StoreDocs, LAMBDA item : CallCondition(cur.condition, item))

\* a and b are in the lexicographic order of the field -> direction map
\* param: on the first field where they differ, a comes first in that
\* field's direction
InLexOrder(param, a, b) ==
  \A i \in 1..Len(param) :
    (\A h \in 1..(i - 1) : a[param[h].k].n = b[param[h].k].n)
      => param[i].v.n * (a[param[i].k].n - b[param[i].k].n) <= 0

\* C6: sorting with a field -> direction map delivers a permutation of the
\* items in lexicographic order of the listed fields (1 ascending, -1
\* descending), e.g. {price: 1, stock: -1} on prices/stocks 2/1, 1/5, 1/2
\* gives 1/5, 1/2, 2/1
C6_SortIsLexicographic ==
  (last.op = "toArray" /\ last.k = "ok" /\ cur.hasSort
     /\ ~cur.hasOffset /\ ~cur.hasLimit)
    => /\ Permutation(last.list, Hits)
       /\ \A i, j \in 1..Len(last.list) :
            i < j => InLexOrder(cur.sort.q, last.list[i], last.list[j])
       /\ (/\ StoreDocs = <<Doc(2, 1), Doc(1, 5), Doc(1, 2)>>
           /\ cur.condition.f = "every"
           /\ cur.sort.q = <<KV("price", Num(1)), KV("stock", Num(-1))>>)
            => last.list = <<Doc(1, 5), Doc(1, 2), Doc(2, 1)>>

\* the example of the claim has been sorted
C6_Witness ==
  /\ StoreDocs = <<Doc(2, 1), Doc(1, 5), Doc(1, 2)>>
  /\ cur.found
  /\ cur.hasSort
  /\ cur.sort.q = <<KV("price", Num(1)), KV("stock", Num(-1))>>
  /\ last.op = "toArray"
  /\ last.list = <<Doc(1, 5), Doc(1, 2), Doc(2, 1)>>

\* C7: the predicate compiled from a map condition hits an item iff the
\* item's value == the condition's value for every field of the map; with no
\* field it hits every item, and with one field it answers as the loop for
\* several fields answers for that condition
C7_MapConditionIsConjunction ==
  (last.op = "toArray" /\ last.k = "ok" /\ args.condition.t = "object")
    => LET q == args.condition.q
           item == store[1].doc
           hit == last.list = <<item>>
       IN  /\ last.list \in {<< >>, <<item>>}
           /\ hit <=> \A i \in 1..Len(q) : LooseEq(Get(item, q[i].k), q[i].v)
           /\ Len(q) = 0 => hit
           /\ Len(q) = 1 => (hit <=> moreConditions(q, 1, item))

\* the one-field predicate has hit an item that lacks the field, for the
\* condition value null
C7_Witness ==
  /\ args.condition.q = <<KV("price", Null)>>
  /\ "price" \notin DOMAIN store[1].doc
  /\ last.op = "toArray"
  /\ last.list = <<store[1].doc>>

\* C8: find fails, with an error carrying the condition, for every condition
\* that is not null/absent, not a map and not a function; null/absent
\* compiles to the predicate that hits every item and a function is kept
C8_InvalidConditionThrows ==
  last.op = "find"
    => /\ InvalidCondition(args.condition)
            => (last.k = "throw"
                /\ last.e = "unknown condition: " \o ToStr(args.condition))
       /\ args.condition.t \in {"undefined", "null"}
            => (cur.found /\ cur.condition.f = "every")
       /\ args.condition.t = "function"
            => (cur.found /\ cur.condition = args.condition)

(***************************************************************************)
(* SpecDrain: a Cursor of lib/core/cursor.js that is used through toArray   *)
(* only, over a store nobody writes to.  At most MaxStages stages are       *)
(* chained onto it first; any one storage call of a toArray, up to call     *)
(* number MaxDrainFail, can fail.                                          *)
(***************************************************************************)
DrainEnvs ==
  [store : {store}, failAt : 0..MaxDrainFail,
   tie : IF HasSort(cur) THEN BOOLEAN ELSE {FALSE}]

DrainOp ==
  \E env \in DrainEnvs :
    /\ Apply("toArray", CursorToArray(cur, env))
    /\ first' = IF last'.k = "ok" /\ ~first.has
                THEN [has |-> TRUE, list |-> last'.list] ELSE first

NextDrain ==
  \/ SortOp
  \/ OffsetOp
  \/ LimitOp
  \/ DrainOp

SpecDrain == Init /\ [][NextDrain]_vars

(***************************************************************************)
(* Claims about failing drains, checked under SpecDrain                    *)
(***************************************************************************)
\* C11: a toArray whose drain meets a failing index() or read() makes no
\* storage call after the failing one, hands the error and no list to its
\* callback, and leaves this._toArray unset
C11_FailedDrainStops ==
  \A env \in DrainEnvs :
    LET r == CursorToArray(cur, env)
    IN  (r.k = "err" /\ r.e = "StorageFailure")
          => /\ r.calls = env.failAt
             /\ r.list = << >>
             /\ ~r.cur.hasArr
             /\ r.cur.arr = cur.arr

\* a toArray has failed on its third storage call, the read after the one
\* that delivered an item, and nothing is memoized
C11_Witness ==
  /\ last.op = "toArray"
  /\ last.k = "err"
  /\ last.e = "StorageFailure"
  /\ last.calls = 3
  /\ last.list = << >>
  /\ ~cur.hasArr

\* what a new Cursor with the condition, projection and chain of args
\* delivers over the store when no storage call fails
Selected(tie) ==
  LET c == Replay(Cursor(args.condition, args.projection), args.chain)
  IN  toArrayIterator(Machine(c.ch), Len(c.ch),
                      [store |-> store, failAt |-> 0, tie |-> tie], << >>)

\* C12: a toArray that succeeds, as a first call or as a retry after a failed
\* one, delivers and memoizes every document the chain selects from the store
C12_NoPartialSuccess ==
  [][(last'.op = "toArray" /\ last'.k = "ok")
       => /\ cur'.hasArr
          /\ cur'.arr = last'.list
          /\ \E tie \in BOOLEAN :
               Selected(tie).ok /\ last'.list = Selected(tie).list]_vars

(***************************************************************************)
(* SpecCopy: the callers of toArray and index change the arrays they were   *)
(* handed.                                                                 *)
(***************************************************************************)
Reverse(x) == [i \in 1..Len(x) |-> x[Len(x) + 1 - i]]

\* what a caller can make of an array x it holds: pop(), reverse(),
\* push(x[0]) and x[0] = x[x.length - 1]
Changed(x) ==
  IF x = << >> THEN {}
  ELSE {SubSeq(x, 1, Len(x) - 1), Reverse(x), Append(x, x[1]),
        [x EXCEPT ![1] = x[Len(x)]]} \ {x}

\* the array the last callback received
Handed == IF last.op = "toArray" THEN last.list ELSE last.ids

\* the caller changes the array the last toArray or index handed to it; the
\* array the Cursor keeps changes with it when it is the same object
TamperOp ==
  /\ last.k = "ok"
  /\ last.op \in {"toArray", "index"}
  /\ \E x \in Changed(Handed) :
       /\ cur' = IF ~last.same THEN cur
                 ELSE IF last.op = "toArray" THEN [cur EXCEPT !.arr = x]
                 ELSE [cur EXCEPT !.idx = x]
       /\ last' = [Quiet("tamper") EXCEPT !.list = IF last.op = "toArray" THEN x ELSE << >>,
                                          !.ids = IF last.op = "index" THEN x ELSE << >>]
  /\ UNCHANGED <<store, args, first, muts>>

NextCopy ==
  \/ ToArrayOp
  \/ IndexOp
  \/ TamperOp
  \/ RewindOp

SpecCopy == Init /\ [][NextCopy]_vars

\* C13: a change the caller makes to a list that toArray or index delivered
\* leaves the Cursor as it was, and the next toArray / index on the Cursor
\* delivers the list the Cursor kept before the change
C13_DeliveredListIsCopy ==
  [][/\ last'.op = "tamper" => cur' = cur
     /\ (last.op = "tamper" /\ last'.op = "toArray" /\ last'.k = "ok" /\ cur.hasArr)
          => last'.list = cur.arr
     /\ (last.op = "tamper" /\ last'.op = "index" /\ last'.k = "ok" /\ cur.hasIndex)
          => last'.ids = cur.idx]_vars

\* the caller holds the reversed list of a toArray, the Cursor the list as
\* it was drained
C13_Witness ==
  /\ last.op = "tamper"
  /\ cur.hasArr
  /\ Len(cur.arr) = 2
  /\ last.list = Reverse(cur.arr)
  /\ last.list # cur.arr

(***************************************************************************)
(* SpecRewind: a Cursor with at most MaxStages chained stages is pulled     *)
(* item by item, drained and rewound, over a store nobody writes to.        *)
(***************************************************************************)
NextRewind ==
  \/ SortOp
  \/ OffsetOp
  \/ LimitOp
  \/ NextObjectOp
  \/ ToArrayOp
  \/ RewindOp

SpecRewind == Init /\ [][NextRewind]_vars

\* the Cursor as it was built: find(condition, projection) and then the chain
\* methods of args.chain
Built == Replay(Cursor(args.condition, args.projection), args.chain)

\* the documents successive nextObject pulls on the chain ch deliver, up to
\* the first EOF or error, and that end
Pulls(ch, tie) ==
  LET a == toArrayIterator(Machine(ch), Len(ch),
                           [store |-> store, failAt |-> 0, tie |-> tie], << >>)
  IN  [ok |-> a.ok, list |-> a.list, e |-> a.e]

\* C14: after rewind() the stages are in the state of a newly built chain, so
\* the pulls that follow deliver what a new Cursor with the same stages
\* delivers over the store
C14_RewindRestoresPosition ==
  [][last'.op = "rewind"
       => /\ cur'.ch = Built.ch
          /\ \A tie \in BOOLEAN : Pulls(cur'.ch, tie) = Pulls(Built.ch, tie)]_vars

\* a Cursor with limit(1) that a toArray had drained has been rewound and
\* the pull after it has delivered the first item again
C14_Witness ==
  /\ args.chain = <<Call("limit", 1, NoFn)>>
  /\ cur.hasArr
  /\ Len(cur.arr) = 1
  /\ last.op = "nextObject"
  /\ last.k = "item"
  /\ last.list = <<cur.arr[1]>>

(***************************************************************************)
(* Claims about rewind and memoization, checked under SpecMemo             *)
(***************************************************************************)
\* C15: a toArray or count that directly follows rewind() drains the chain
\* again: it calls the storage, and toArray delivers what the chain selects
\* from the store as it is then, count the length of that
C15_RewindEndsMemoization ==
  [][(last.op = "rewind" /\ last'.op \in {"toArray", "count"} /\ last'.k = "ok")
       => /\ last'.calls > 0
          /\ \E tie \in BOOLEAN :
               /\ Selected(tie).ok
               /\ last'.op = "toArray" => last'.list = Selected(tie).list
               /\ last'.op = "count" => last'.num = Len(Selected(tie).list)]_vars

(***************************************************************************)
(* update.js: exports.update compiles an update specification into a        *)
(* function that changes an item.  Here a value is a record [t, n, s, a]:   *)
(* a scalar as above with a = << >>, or an array (t = "array") whose         *)
(* elements a are scalars.  An item is a function from its fields to        *)
(* values.  A specification is a map, the sequence of its [k, v] in key     *)
(* order; the value of an operator is a map of field/argument pairs (q) or  *)
(* a scalar.                                                                *)
(***************************************************************************)
Val(v) == [t |-> v.t, n |-> v.n, s |-> v.s, a |-> << >>]
Arr(elems) == [t |-> "array", n |-> 0, s |-> "", a |-> elems]
Scalar(u) == [t |-> u.t, n |-> u.n, s |-> u.s]
Map(q) == [t |-> "object", n |-> 0, s |-> "", q |-> q]
Lit(v) == [t |-> v.t, n |-> v.n, s |-> v.s, q |-> << >>]

\* item[key], item[key] = v and delete item[key]
Field(item, key) == IF key \in DOMAIN item THEN item[key] ELSE Val(Undef)
Put(item, key, v) ==
  [k \in (DOMAIN item) \cup {key} |-> IF k = key THEN v ELSE item[k]]
Delete(item, key) == [k \in (DOMAIN item) \ {key} |-> item[k]]

\* update[key] of a specification
Lookup(update, key) ==
  IF \E i \in 1..Len(update.q) : update.q[i].k = key
  THEN update.q[CHOOSE i \in 1..Len(update.q) : update.q[i].k = key].v
  ELSE Lit(Undef)

\* parseFloat on the strings of the model: the longest numeric prefix, NaN
\* when there is none
StrToFloat(x) ==
  CASE x = "3" -> Num(3)
    [] x = "2" -> Num(2)
    [] x = "1" -> Num(1)
    [] x = "3x" -> Num(3)
    [] OTHER -> NaN

\* String(v) of an array element inside String(array): null and undefined
\* give the empty string
ElemStr(v) == IF v.t \in {"undefined", "null"} THEN "" ELSE ToStr(v)

\* parseFloat(v): v is converted to a string first (an array to the string
\* of its elements joined by commas, of which the first decides)
parseFloat(v) ==
  CASE v.t = "number" -> Num(v.n)
    [] v.t = "string" -> StrToFloat(v.s)
    [] v.t = "array" -> (IF v.a = << >> THEN NaN ELSE StrToFloat(ElemStr(v.a[1])))
    [] OTHER -> NaN

\* parseFloat(v) || 0, as a number of the model
FloatOr0(v) == IF parseFloat(v).t = "number" THEN parseFloat(v).n ELSE 0

\* Number(v) || 0 in the place of parseFloat(v) || 0
NumberOr0(v) ==
  IF v.t = "array" THEN 0
  ELSE IF ToNum(Scalar(v)).t = "number" THEN ToNum(Scalar(v)).n ELSE 0

\* the body of the $set loop
set(item, key, val) == Put(item, key, val)

\* the body of the $unset loop
unset(item, key, val) == Delete(item, key)

\* the body of the $rename loop: the new name is used as a property key
rename(item, key, val) == Delete(Put(item, ToStr(Scalar(val)), Field(item, key)), key)

\* the body of the $push loop that appends to nothing but an array
pushArrayOnly(item, key, val) ==
  LET old == Field(item, key)
  IN  Put(item, key, Arr(Append(IF old.t = "array" THEN old.a ELSE << >>, Scalar(val))))

\* the body of the $push loop
push(item, key, val) ==
  LET old == Field(item, key)
      arr == IF old.t = "array" THEN old.a
             ELSE IF TypeOf(old) = "undefined" THEN << >>
             ELSE <<Scalar(old)>>
  IN  Put(item, key, Arr(Append(arr, Scalar(val))))

\* the body of the $pull loop
pull(item, key, val) ==
  LET old == Field(item, key)
  IN  IF old.t = "array"
      THEN Put(item, key,
               Arr(SelectSeq(old.a, LAMBDA test : ~LooseEq(Scalar(val), test))))
      ELSE IF LooseEq(Scalar(val), Scalar(old)) THEN Put(item, key, Arr(<< >>))
      ELSE item

\* the body of the $inc loop with Number() in the place of parseFloat()
incNumber(item, key, val) ==
  Put(item, key, Val(Num(NumberOr0(Field(item, key)) + NumberOr0(val))))

\* the body of the $inc loop
inc(item, key, val) ==
  Put(item, key, Val(Num(FloatOr0(Field(item, key)) + FloatOr0(val))))

\* one pass of a `for (key in update.$op)` loop body
Body(op, item, key, val) ==
  CASE op = "$set" -> set(item, key, val)
    [] op = "$unset" -> unset(item, key, val)
    [] op = "$rename" -> rename(item, key, val)
    [] op = "$push" -> push(item, key, val)
    [] op = "$pull" -> pull(item, key, val)
    [] op = "$inc" -> inc(item, key, val)

\* for (key in q) from pair number i on
RECURSIVE ForIn(_, _, _, _)
ForIn(op, q, i, item) ==
  IF i > Len(q) THEN item
  ELSE ForIn(op, q, i + 1, Body(op, item, q[i].k, q[i].v))

\* if (update.$op) { for (key in update.$op) ... }
Operator(update, op, item) ==
  IF Truthy(Lookup(update, op)) THEN ForIn(op, Lookup(update, op).q, 1, item)
  ELSE item

\* the operators applied in the key order of the specification, from key i on
RECURSIVE InKeyOrder(_, _, _)
InKeyOrder(update, i, item) ==
  IF i > Len(update.q) THEN item
  ELSE InKeyOrder(update, i + 1, Operator(update, update.q[i].k, item))
MutatorInKeyOrder(update, item) == InKeyOrder(update, 1, item)

\* the function exports.update returns, applied to an item
Mutator(update, item) ==
  Operator(update, "$inc",
    Operator(update, "$pull",
      Operator(update, "$push",
        Operator(update, "$rename",
          Operator(update, "$unset",
            Operator(update, "$set", item))))))

\* the operators of the table ope
Operators == {"$set", "$unset", "$rename", "$push", "$pull", "$inc"}
\* what ope inherits from Object.prototype; ope[key] is truthy for these too
Inherited == {"constructor", "toString", "valueOf", "hasOwnProperty"}

\* the check of one key: ope[key] && 'object' === typeof update[key]
KeyOk(update, i) ==
  /\ update.q[i].k \in Operators \cup Inherited
  /\ TypeOf(update.q[i].v) = "object"

\* exports.update(update) for a map or an absent update: [ok, fn, e]
update(upd) ==
  LET u == IF Truthy(upd) THEN upd ELSE Map(<< >>)
      bad == {i \in 1..Len(u.q) : ~KeyOk(u, i)}
  IN  IF TypeOf(u) # "object"
      THEN [ok |-> FALSE, fn |-> Map(<< >>), e |-> "invalid update: " \o ToStr(u)]
      ELSE IF bad # {}
      THEN [ok |-> FALSE, fn |-> Map(<< >>),
            e |-> "invalid update operator: "
                    \o u.q[CHOOSE i \in bad : \A j \in bad : i <= j].k]
      ELSE [ok |-> TRUE, fn |-> u, e |-> ""]

(***************************************************************************)
(* SpecUpdate: exports.update compiles a specification and the function it  *)
(* returns is applied to an item.  args holds the specification and the     *)
(* item, cur what exports.update returned, last.list the item returned.     *)
(***************************************************************************)
\* the items the function is applied to
UpdateItems ==
  {[b |-> Val(Num(1))],
   [a |-> Val(Num(5))],
   [a |-> Val(Str("3"))],
   [a |-> Val(Str("x"))],
   [a |-> Val(Bool(TRUE))],
   [a |-> Val(Null)],
   [a |-> Arr(<<Str("1"), Num(1), Str("x"), Num(1)>>), b |-> Val(Str("x"))]}

\* the values a specification gives to a key
KeyVals(key) ==
  CASE key = "$set" ->
         {Map(<<KV("a", Val(Num(5)))>>), Map(<<KV("b", Val(Str("x"))), KV("a", Val(Str("3x")))>>),
          Lit(Null)}
    [] key = "$unset" -> {Map(<<KV("a", Val(Str("")))>>), Map(<<KV("c", Val(Num(1)))>>)}
    [] key = "$rename" ->
         {Map(<<KV("a", Val(Str("b")))>>), Map(<<KV("c", Val(Str("a")))>>),
          Map(<<KV("a", Val(Str("a")))>>)}
    [] key = "$push" -> {Map(<<KV("a", Val(Str("x")))>>), Map(<<KV("c", Val(Num(1)))>>)}
    [] key = "$pull" ->
         {Map(<<KV("a", Val(Str("x")))>>), Map(<<KV("a", Val(Num(1)))>>),
          Map(<<KV("c", Val(Null)), KV("a", Val(Num(5)))>>)}
    [] key = "$inc" ->
         {Map(<<KV("a", Val(Num(1)))>>), Map(<<KV("a", Val(Str("2"))), KV("c", Val(Num(4)))>>),
          Lit(Num(7))}
    [] OTHER -> {Map(<< >>)}

UpdateKeys == Operators \cup {"$foo", "constructor"}

\* the key/value pairs a specification is made of
Entries == UNION {{KV(key, v) : v \in KeyVals(key)} : key \in UpdateKeys}

\* the maps of n keys: every choice of distinct keys, in every key order
RECURSIVE UpdateMaps(_)
UpdateMaps(n) ==
  IF n = 0 THEN {<< >>}
  ELSE UNION {{Append(q, kv) :
                 kv \in {x \in Entries : \A i \in 1..Len(q) : q[i].k # x.k}} :
              q \in UpdateMaps(n - 1)}

UpdateSpecs ==
  {Lit(Undef)} \cup {Map(q) : q \in UNION {UpdateMaps(n) : n \in 0..MaxOps}}

NotCompiled == [ok |-> FALSE, fn |-> Map(<< >>), e |-> "not compiled"]

InitUpdate ==
  /\ store = << >>
  /\ args \in [update : UpdateSpecs, item : UpdateItems]
  /\ cur = NotCompiled
  /\ last = Quiet("new")
  /\ first = [has |-> FALSE, list |-> << >>]
  /\ muts = 0

\* func = obop.update(args.update)
UpdateOp ==
  /\ last.op = "new"
  /\ cur' = update(args.update)
  /\ last' = [Quiet("update") EXCEPT !.k = IF cur'.ok THEN "ok" ELSE "throw",
                                     !.e = cur'.e]
  /\ UNCHANGED <<store, args, first, muts>>

\* func(args.item)
MutateOp ==
  /\ last.op = "update"
  /\ cur.ok
  /\ last' = [Quiet("mutate") EXCEPT !.k = "ok",
                                     !.list = <<Mutator(cur.fn, args.item)>>]
  /\ UNCHANGED <<store, cur, args, first, muts>>

NextUpdate ==
  \/ UpdateOp
  \/ MutateOp

SpecUpdate == InitUpdate /\ [][NextUpdate]_vars

(***************************************************************************)
(* Claims about update.js, checked under SpecUpdate                        *)
(***************************************************************************)
\* the item the compiled function returned
Result == last.list[1]

\* C16: compiling a specification fails with 'invalid update operator: key',
\* for a key that is not one of the six operators or whose value is not a
\* map (a scalar or null), whenever there is such a key, and succeeds
\* otherwise
C16_InvalidOperatorRejected ==
  (last.op = "update" /\ args.update.t = "object")
    => LET q == args.update.q
           offending == {i \in 1..Len(q) :
                           q[i].k \notin Operators \/ q[i].v.t # "object"}
       IN  IF offending = {} THEN last.k = "ok"
           ELSE /\ last.k = "throw"
                /\ \E i \in offending : last.e = "invalid update operator: " \o q[i].k

\* the specifications with the keys of q in another order
Reordered(q) ==
  {[i \in 1..Len(q) |-> q[p[i]]] :
     p \in {f \in [1..Len(q) -> 1..Len(q)] : \A i, j \in 1..Len(q) : i # j => f[i] # f[j]}}

\* the specification has exactly the two keys k1 and k2, whose values are the
\* maps q1 and q2
Both(k1, q1, k2, q2) ==
  /\ Len(args.update.q) = 2
  /\ Lookup(args.update, k1) = Map(q1)
  /\ Lookup(args.update, k2) = Map(q2)

\* C17: the function applies the operators in the order $set, $unset,
\* $rename, $push, $pull, $inc whatever the key order of the specification:
\* every reordering of the keys compiles to a function with the same result;
\* $set {a: 5} with $unset {a} leaves a absent and $set {a: 5} with
\* $inc {a: 1} yields a = 6
C17_FixedOperatorOrder ==
  last.op = "mutate"
    => /\ \A q \in Reordered(args.update.q) :
            /\ update(Map(q)).ok
            /\ Mutator(update(Map(q)).fn, args.item) = Result
       /\ Both("$set", <<KV("a", Val(Num(5)))>>, "$unset", <<KV("a", Val(Str("")))>>)
            => "a" \notin DOMAIN Result
       /\ Both("$set", <<KV("a", Val(Num(5)))>>, "$inc", <<KV("a", Val(Num(1)))>>)
            => Result["a"] = Val(Num(6))

\* the function compiled from {$inc: {a: 1}, $set: {a: 5}}, $inc being the
\* first key, has returned a = 6
C17_Witness ==
  /\ last.op = "mutate"
  /\ args.update.q = <<KV("$inc", Map(<<KV("a", Val(Num(1)))>>)),
                       KV("$set", Map(<<KV("a", Val(Num(5)))>>))>>
  /\ Result["a"] = Val(Num(6))

\* the specification is {op: map} and the function has been applied
Only(op) ==
  /\ last.op = "mutate"
  /\ Len(args.update.q) = 1
  /\ args.update.q[1].k = op
  /\ args.update.q[1].v.t = "object"
\* the field/argument pairs of that map
Pairs == args.update.q[1].v.q
\* the fields no pair names are as they were
OthersKept ==
  LET named == {Pairs[i].k : i \in 1..Len(Pairs)}
  IN  /\ (DOMAIN Result) \ named = (DOMAIN args.item) \ named
      /\ \A k \in (DOMAIN args.item) \ named : Result[k] = args.item[k]

\* the number an operand of $inc counts as: a number is itself, a string
\* that is a decimal literal is its value, anything else and a missing
\* operand count as 0
Parsed(v) ==
  CASE v.t = "number" -> v.n
    [] v.t = "string" /\ v.s = "1" -> 1
    [] v.t = "string" /\ v.s = "2" -> 2
    [] v.t = "string" /\ v.s = "3" -> 3
    [] OTHER -> 0

C19_PushAppends ==
  Only("$push")
    => /\ OthersKept
       /\ \A i \in 1..Len(Pairs) :
            LET old == Field(args.item, Pairs[i].k)
                before == IF old.t = "array" THEN old.a
                          ELSE IF Pairs[i].k \notin DOMAIN args.item THEN << >>
                          ELSE <<Scalar(old)>>
            IN  /\ Pairs[i].k \in DOMAIN Result
                /\ Result[Pairs[i].k] = Arr(before \o <<Scalar(Pairs[i].v)>>)

\* {a: "x"} with {$push: {a: "x"}} has become {a: ["x", "x"]}
C19_Witness ==
  /\ Only("$push")
  /\ args.item = [a |-> Val(Str("x"))]
  /\ Pairs = <<KV("a", Val(Str("x")))>>
  /\ Result = [a |-> Arr(<<Str("x"), Str("x")>>)]

\* C20: $pull replaces a sequence by that sequence without the elements ==
\* to the given value, a non-sequence value == to the given value by the
\* empty sequence, and leaves the item untouched otherwise: an absent field
\* stays absent
C20_PullRemovesEqual ==
  Only("$pull")
    => /\ OthersKept
       /\ \A i \in 1..Len(Pairs) :
            LET key == Pairs[i].k
                old == Field(args.item, key)
            IN  IF old.t = "array"
                THEN /\ key \in DOMAIN Result
                     /\ Result[key] =
                          Arr(SelectSeq(old.a,
                                        LAMBDA x : ~LooseEq(Scalar(Pairs[i].v), x)))
                ELSE IF key \in DOMAIN args.item /\ LooseEq(Scalar(Pairs[i].v), Scalar(old))
                THEN key \in DOMAIN Result /\ Result[key] = Arr(<< >>)
                ELSE IF key \in DOMAIN args.item
                THEN key \in DOMAIN Result /\ Result[key] = old
                ELSE key \notin DOMAIN Result

\* C21: after $rename, for each old-name/new-name pair, the new name holds
\* the value the old name held (undefined if the old name was absent) and the
\* old name is absent, also when both names are the same field
C21_RenameMovesValue ==
  Only("$rename")
    => \A i \in 1..Len(Pairs) :
         LET old == Pairs[i].k
             new == Pairs[i].v.s
         IN  /\ new \in DOMAIN Result
             /\ Result[new] = Field(args.item, old)
             /\ old \notin DOMAIN Result

\* C22: the count of core/cursor.js delivers the number of stored documents
\* for which the compiled condition reports a hit
C22_CoreCountCountsHits ==
  (last.op = "count" /\ last.k = "ok")
    => last.num = Cardinality({i \in 1..Len(store) :
                                 CallCondition(cur.condition, store[i].doc)})

(***************************************************************************)
(* core/base.js: the options of a class made by inherit() and of its       *)
(* instances.  An options object is a function from its keys to values.    *)
(***************************************************************************)
\* opts[key]
OptGet(opts, key) == IF key \in DOMAIN opts THEN opts[key] ELSE Undef
\* opts[key] = val
OptPut(opts, key, val) ==
  [k \in (DOMAIN opts) \cup {key} |-> IF k = key THEN val ELSE opts[k]]
\* the property name a value used as a key is converted to
ToKey(key) == IF key.t = "object" THEN "[object Object]" ELSE ToStr(key)
\* a value used as a condition: every object is truthy
IsTrue(v) == v.t = "object" \/ (v.t # "object" /\ Truthy(v))

\* for (key in args) opts[key] = args[key], from the i-th key of args on
RECURSIVE Assign(_, _, _)
Assign(opts, q, i) ==
  IF i > Len(q) THEN opts
  ELSE Assign(OptPut(opts, q[i].k, q[i].v), q, i + 1)

\* child.get(key)
childGet(options, key) == OptGet(options, key)

\* child.set(key, val): the options of the class afterwards; val is
\* undefined when the call has one argument
childSet(options, key, val) == OptPut(options, ToKey(key), val)

\* KagoDB.prototype.get(key)
KagoGet(options, key) == OptGet(options, key)

\* KagoDB.prototype.set called with len arguments: the options of the
\* instance afterwards (a one-argument call is given an object or nothing)
KagoSet(options, len, key, val) ==
  IF len = 2 /\ IsTrue(key) THEN OptPut(options, ToKey(key), val)
  ELSE IF len = 1 /\ IsTrue(key) THEN Assign(options, key.q, 1)
  ELSE options

\* an object with the keys and values of an options object, in some key order
RECURSIVE AsObject(_)
AsObject(options) ==
  IF DOMAIN options = {} THEN << >>
  ELSE LET k == CHOOSE x \in DOMAIN options : TRUE
       IN  <<KV(k, options[k])>>
             \o AsObject([y \in (DOMAIN options) \ {k} |-> options[y]])

\* new child(options): the options of the new instance
child(classOptions, options) ==
  KagoSet(KagoSet(<< >>, 1, ObjArg(AsObject(classOptions)), Undef), 1, options, Undef)

(***************************************************************************)
(* SpecOptions: one class and one instance of it.  cur holds the options   *)
(* of the class and, once built, of the instance; last.list holds what a   *)
(* get returned, or the key/value pairs a set was called with (last.num is *)
(* the number of arguments of that call).                                  *)
(***************************************************************************)
OptKeys == {"path", "storage"}
OptVals == {Str("data"), Str("yaml")}
\* the parameters objects given to set and to the constructor
OptObjs ==
  {<< >>}
    \cup {<<KV(k, v)>> : k \in OptKeys, v \in OptVals}
    \cup {<<KV("path", v), KV("storage", w)>> : v, w \in OptVals}

InitOptions ==
  /\ store = << >>
  /\ args = << >>
  /\ cur = [options |-> << >>, built |-> FALSE, inst |-> << >>]
  /\ last = Quiet("new")
  /\ first = [has |-> FALSE, list |-> << >>]
  /\ muts = 0

\* KagoDB.set(key, val)
ClassSetOp ==
  /\ muts < MaxSets
  /\ \E key \in OptKeys, val \in OptVals :
       /\ cur' = [cur EXCEPT !.options = childSet(@, Arg(Str(key)), val)]
       /\ last' = [Quiet("KagoDB.set") EXCEPT !.num = 2, !.list = <<KV(key, val)>>]
  /\ muts' = muts + 1
  /\ UNCHANGED <<store, args, first>>

\* KagoDB.set(parameters)
ClassSetObjectOp ==
  /\ muts < MaxSets
  /\ \E q \in OptObjs :
       /\ cur' = [cur EXCEPT !.options = childSet(@, ObjArg(q), Undef)]
       /\ last' = [Quiet("KagoDB.set") EXCEPT !.num = 1, !.list = q]
  /\ muts' = muts + 1
  /\ UNCHANGED <<store, args, first>>

\* KagoDB.get(key)
ClassGetOp ==
  /\ \E key \in OptKeys :
       last' = [Quiet("KagoDB.get") EXCEPT !.ids = <<key>>,
                                           !.list = <<childGet(cur.options, key)>>]
  /\ UNCHANGED <<store, args, cur, first, muts>>

\* new KagoDB(options), options being absent or a parameters object
BuildOp ==
  /\ ~cur.built
  /\ \E options \in {Arg(Undef)} \cup {ObjArg(q) : q \in OptObjs} :
       cur' = [cur EXCEPT !.built = TRUE, !.inst = child(cur.options, options)]
  /\ last' = Quiet("build")
  /\ UNCHANGED <<store, args, first, muts>>

\* instance.set(key, val)
InstanceSetOp ==
  /\ cur.built
  /\ muts < MaxSets
  /\ \E key \in OptKeys, val \in OptVals :
       /\ cur' = [cur EXCEPT !.inst = KagoSet(@, 2, Arg(Str(key)), val)]
       /\ last' = [Quiet("set") EXCEPT !.num = 2, !.list = <<KV(key, val)>>]
  /\ muts' = muts + 1
  /\ UNCHANGED <<store, args, first>>

\* instance.get(key)
InstanceGetOp ==
  /\ cur.built
  /\ \E key \in OptKeys :
       last' = [Quiet("get") EXCEPT !.ids = <<key>>,
                                    !.list = <<KagoGet(cur.inst, key)>>]
  /\ UNCHANGED <<store, args, cur, first, muts>>

NextOptions ==
  \/ ClassSetOp
  \/ ClassSetObjectOp
  \/ ClassGetOp
  \/ BuildOp
  \/ InstanceSetOp
  \/ InstanceGetOp

SpecOptions == InitOptions /\ [][NextOptions]_vars

\* the options of the class after KagoDB.set(q[i].k, q[i].v) for each pair
\* of q from the i-th on
RECURSIVE SetEach(_, _, _)
SetEach(options, q, i) ==
  IF i > Len(q) THEN options
  ELSE SetEach(childSet(options, Arg(Str(q[i].k)), q[i].v), q, i + 1)

\* C23: after KagoDB.set({k1: v1, ..., kn: vn}) each KagoDB.get(ki) returns
\* vi and an instance built without options returns vi from get(ki), and
\* every key reads as after the n calls KagoDB.set(ki, vi)
C23_ClassSetTakesObject ==
  [][(last'.op = "KagoDB.set" /\ last'.num = 1)
       => LET q == last'.list
          IN  /\ \A i \in 1..Len(q) :
                   /\ childGet(cur'.options, q[i].k) = q[i].v
                   /\ KagoGet(child(cur'.options, Arg(Undef)), q[i].k) = q[i].v
              /\ \A key \in OptKeys :
                   childGet(cur'.options, key)
                     = childGet(SetEach(cur.options, q, 1), key)]_vars

(***************************************************************************)
(* memory.js (lib/webapi/webapi.js): the memory storage.  An object of     *)
(* the store is the sequence of its own key/value pairs in insertion       *)
(* order.  SharedStore maps a namespace to its object.  An instance is     *)
(* [namespace, bound, ref, own, plain]: bound says _memory_store is set,   *)
(* ref names the SharedStore object it is then bound to ("" for an object  *)
(* of its own, held in own), plain says that its escape and unescape leave *)
(* identifiers as they are.                                                *)
(***************************************************************************)
\* store.hasOwnProperty(key)
OwnHas(obj, key) == \E i \in 1..Len(obj) : obj[i].k = key
\* store[key] of an own key
OwnGet(obj, key) == obj[CHOOSE i \in 1..Len(obj) : obj[i].k = key].v
\* store[key] = val.  The store is a plain object ({}): an assignment to the
\* key __proto__ goes to the accessor of Object.prototype, which sets the
\* prototype of the store or does nothing, and makes no own property
OwnSet(obj, key, val) ==
  IF key = "__proto__" THEN obj
  ELSE IF OwnHas(obj, key)
  THEN [i \in 1..Len(obj) |-> IF obj[i].k = key THEN KV(key, val) ELSE obj[i]]
  ELSE Append(obj, KV(key, val))
\* delete store[key]
OwnDelete(obj, key) == SelectSeq(obj, LAMBDA p : p.k # key)

\* the identifiers a store is asked for
MemIds == {"a", "b"}
\* the identifiers a store is asked for when identifiers are any strings
AnyIds == {"a", "__proto__"}
\* this.escape(id) and this.unescape(key): a bijection between identifiers
\* and storage keys
escape(id) == "id:" \o id
unescape(key) == CHOOSE id \in MemIds \cup AnyIds : escape(id) = key
\* this.escape and this.unescape come with the mixins of the instance: the
\* bijection above, or the one that leaves identifiers as they are
Escape(inst, id) == IF inst.plain THEN id ELSE escape(id)
Unescape(inst, key) == IF inst.plain THEN key ELSE unescape(key)
\* this.encode(item, callback) and this.decode(item, callback), succeeding
encode(item) == [encoded |-> item]
decode(source) == source.encoded

\* memory_store() with one object for all namespaces in the place of one
\* object per namespace
memory_storeOne(shared, namespace) ==
  IF namespace # ""
  THEN [shared |-> IF "x" \in DOMAIN shared THEN shared ELSE OptPut(shared, "x", << >>),
        ref |-> "x"]
  ELSE [shared |-> shared, ref |-> ""]

\* memory_store() of an instance with this namespace: SharedStore
\* afterwards and the object returned
memory_store(shared, namespace) ==
  IF namespace # ""
  THEN [shared |-> IF namespace \in DOMAIN shared THEN shared
                   ELSE OptPut(shared, namespace, << >>),
        ref |-> namespace]
  ELSE [shared |-> shared, ref |-> ""]

\* this._memory_store || (this._memory_store = this.memory_store())
Bind(shared, inst) ==
  IF inst.bound THEN [shared |-> shared, inst |-> inst]
  ELSE [shared |-> memory_store(shared, inst.namespace).shared,
        inst |-> [inst EXCEPT !.bound = TRUE,
                              !.ref = memory_store(shared, inst.namespace).ref,
                              !.own = << >>]]
\* the object b.inst is bound to
Bound(b) == IF b.inst.ref # "" THEN b.shared[b.inst.ref] ELSE b.inst.own
\* that object replaced by obj
Rebound(b, obj) ==
  IF b.inst.ref # "" THEN [b EXCEPT !.shared[b.inst.ref] = obj]
  ELSE [b EXCEPT !.inst.own = obj]

\* what a storage call answers: SharedStore and the instance afterwards and
\* the arguments of the callback
Answer(b, e, item, list, exists) ==
  [shared |-> b.shared, inst |-> b.inst, e |-> e, item |-> item, list |-> list,
   exists |-> exists]

\* read(id, callback) after the store has been bound
readBound(b, id) ==
  IF OwnHas(Bound(b), Escape(b.inst, id))
  THEN Answer(b, "", <<decode(OwnGet(Bound(b), Escape(b.inst, id)))>>, << >>, FALSE)
  ELSE Answer(b, "Item not found", << >>, << >>, FALSE)
memoryRead(shared, inst, id) == readBound(Bind(shared, inst), id)

\* write(id, item, callback)
memoryWrite(shared, inst, id, item) ==
  Answer(Rebound(Bind(shared, inst),
                 OwnSet(Bound(Bind(shared, inst)), Escape(inst, id), encode(item))),
         "", << >>, << >>, FALSE)

\* erase(id, callback) after the store has been bound
eraseBound(b, id) ==
  IF OwnHas(Bound(b), Escape(b.inst, id))
  THEN Answer(Rebound(b, OwnDelete(Bound(b), Escape(b.inst, id))), "", << >>, << >>, FALSE)
  ELSE Answer(b, "Item not found", << >>, << >>, FALSE)
memoryErase(shared, inst, id) == eraseBound(Bind(shared, inst), id)

\* exist(id, callback) after the store has been bound
existBound(b, id) == Answer(b, "", << >>, << >>, OwnHas(Bound(b), Escape(b.inst, id)))
memoryExist(shared, inst, id) == existBound(Bind(shared, inst), id)

\* index(callback) after the store has been bound
indexBound(b) ==
  Answer(b, "", << >>,
         [i \in 1..Len(Bound(b)) |-> Unescape(b.inst, Bound(b)[i].k)], FALSE)
memoryIndex(shared, inst) == indexBound(Bind(shared, inst))

(***************************************************************************)
(* SpecMemory: MaxInst instances with the memory storage in one process.   *)
(* store is SharedStore, cur the instances; last holds the call made       *)
(* (last.num the instance, last.ids the identifier, last.list the item of a  *)
(* write) and its answer; first holds the instance that wrote last.        *)
(***************************************************************************)
Namespaces == {"", "x", "y"}
\* the instances are interchangeable: they are numbered in this order of
\* their namespaces
NamespaceRank == [ns \in Namespaces |-> IF ns = "" THEN 0 ELSE IF ns = "x" THEN 1 ELSE 2]
MemItems == {Num(1), Num(2)}
NewInstance(namespace) ==
  [namespace |-> namespace, bound |-> FALSE, ref |-> "", own |-> << >>,
   plain |-> FALSE]

InitMemory ==
  /\ store = << >>
  /\ cur \in {c \in [1..MaxInst -> {NewInstance(ns) : ns \in Namespaces}] :
                 \A i, j \in 1..MaxInst :
                    i < j => NamespaceRank[c[i].namespace] <= NamespaceRank[c[j].namespace]}
  /\ args = << >>
  /\ last = Quiet("new")
  /\ first = [has |-> FALSE, list |-> << >>]
  /\ muts = 0

\* the call op made through instance i with identifier id (and item, for a
\* write) was answered by r
Answered(op, i, id, item, r) ==
  /\ store' = r.shared
  /\ cur' = [cur EXCEPT ![i] = r.inst]
  /\ last' = [Quiet(op) EXCEPT !.k = IF r.e = "" THEN "ok" ELSE "err",
                               !.e = r.e, !.num = i, !.ids = <<id>>,
                               !.list = IF op = "index" THEN r.list
                                        ELSE IF op = "write" THEN <<item>>
                                        ELSE r.item,
                               !.same = r.exists]
  /\ UNCHANGED args

MemoryReadOp ==
  /\ \E i \in 1..MaxInst, id \in MemIds :
       Answered("read", i, id, Undef, memoryRead(store, cur[i], id))
  /\ UNCHANGED <<first, muts>>

MemoryWriteOp ==
  /\ muts < MaxWrites
  /\ \E i \in 1..MaxInst, id \in MemIds, item \in MemItems :
       /\ Answered("write", i, id, item, memoryWrite(store, cur[i], id, item))
       /\ first' = [has |-> TRUE, list |-> <<i>>]
  /\ muts' = muts + 1

MemoryEraseOp ==
  /\ muts < MaxWrites
  /\ \E i \in 1..MaxInst, id \in MemIds :
       Answered("erase", i, id, Undef, memoryErase(store, cur[i], id))
  /\ muts' = muts + 1
  /\ UNCHANGED first

MemoryExistOp ==
  /\ \E i \in 1..MaxInst, id \in MemIds :
       Answered("exist", i, id, Undef, memoryExist(store, cur[i], id))
  /\ UNCHANGED <<first, muts>>

MemoryIndexOp ==
  /\ \E i \in 1..MaxInst : Answered("index", i, "", Undef, memoryIndex(store, cur[i]))
  /\ UNCHANGED <<first, muts>>

NextMemory ==
  \/ MemoryReadOp
  \/ MemoryWriteOp
  \/ MemoryEraseOp
  \/ MemoryExistOp
  \/ MemoryIndexOp

SpecMemory == InitMemory /\ [][NextMemory]_vars

\* what instance j observes of identifier id: the answers of read and exist
\* and whether index lists it
Observed(shared, insts, j, id) ==
  [e |-> memoryRead(shared, insts[j], id).e,
   item |-> memoryRead(shared, insts[j], id).item,
   exists |-> memoryExist(shared, insts[j], id).exists,
   listed |-> \E n \in 1..Len(memoryIndex(shared, insts[j]).list) :
                memoryIndex(shared, insts[j]).list[n] = id]

\* instances i and j are configured with the same non-empty namespace
SameStore(i, j) ==
  i = j \/ (cur[i].namespace # "" /\ cur[i].namespace = cur[j].namespace)

InitPull ==
  /\ store = InitStore(MaxPullDocs)
  /\ args \in [condition : {Arg(Undef), ObjArg(<<KV("price", Num(1))>>)},
               projection : {Arg(Undef)}, chain : {<< >>}]
  /\ cur = Cursor(args.condition, args.projection)
  /\ last = Quiet("new")
  /\ first = [has |-> FALSE, list |-> << >>]
  /\ muts = 0

\* the pulls and each calls made on the Cursor since the last rewind
Started ==
  Len(SelectSeq(first.list, LAMBDA x : x.c = "pull" /\ x.k = Len(cur.ch)))
    + Len(SelectSeq(first.list, LAMBDA x : x.c = "callback" /\ x.r # "item"))

\* cursor.nextObject(callback) has invoked its callback with r
Pulled(r) ==
  /\ cur' = nextDone(cur, r).cur
  /\ last' = Done("nextObject", nextDone(cur, r))
  /\ first' = [first EXCEPT !.list = @ \o r.m.log]
  /\ UNCHANGED <<store, args, muts>>

\* any one storage call of a pull, up to call number MaxDrainFail, can fail
PullOp ==
  /\ Started < MaxPulls
  /\ \E env \in DrainEnvs : Pulled(nextObject(Logging(cur.ch), Len(cur.ch), env))

\* one Offset or one Limit is chained onto the Cursor before the first pull
PullOffsetOp ==
  /\ first.list = << >>
  /\ Fresh(cur)
  /\ Chained(cur) = 0
  /\ \E offset \in 0..MaxPullArg :
       /\ cur' = CursorOffset(cur, offset)
       /\ args' = [args EXCEPT !.chain = Append(@, Call("offset", offset, NoFn))]
  /\ last' = Quiet("offset")
  /\ UNCHANGED <<store, first, muts>>

PullLimitOp ==
  /\ first.list = << >>
  /\ Fresh(cur)
  /\ Chained(cur) = 0
  /\ \E limit \in 0..MaxPullArg :
       /\ cur' = CursorLimit(cur, limit)
       /\ args' = [args EXCEPT !.chain = Append(@, Call("limit", limit, NoFn))]
  /\ last' = Quiet("limit")
  /\ UNCHANGED <<store, first, muts>>

\* the log of cursor.each(callback)
eachLog(c, env) ==
  IF c.err # "" THEN <<Entry("callback", 0, "", "err", NoDoc)>>
  ELSE eachIterator(Logging(c.ch), env, << >>).m.log

EachLogOp ==
  /\ Started < MaxPulls
  /\ \E env \in Envs :
       /\ Apply("each", CursorEach(cur, env))
       /\ first' = [first EXCEPT !.list = @ \o eachLog(cur, env)]

NextPull ==
  \/ PullOffsetOp
  \/ PullLimitOp
  \/ PullOp
  \/ RewindOp

SpecPull == InitPull /\ [][NextPull]_vars

NextEach ==
  \/ SortOp
  \/ OffsetOp
  \/ LimitOp
  \/ EachLogOp
  \/ RewindOp

SpecEach == Init /\ [][NextEach]_vars

(***************************************************************************)
(* Claims about the stages, checked under SpecPull                         *)
(***************************************************************************)
\* what the log says of the Source: the pulls it received, its answers and
\* the storage calls
SourceLog ==
  SelectSeq(first.list,
            LAMBDA x : x.c \in {"index", "read"}
                         \/ (x.c \in {"pull", "answer"} /\ x.k = 1))
\* the part of the log s that belongs to the pull at position i: up to the
\* next pull
PullEnd(s, i) ==
  IF \E j \in (i + 1)..Len(s) : s[j].c = "pull"
  THEN (CHOOSE j \in (i + 1)..Len(s) :
          s[j].c = "pull" /\ \A n \in (i + 1)..(j - 1) : s[n].c # "pull") - 1
  ELSE Len(s)
\* the storage calls of that part, as <<call, identifier>>
PullCalls(s, i) ==
  LET calls == SelectSeq(SubSeq(s, i + 1, PullEnd(s, i)),
                         LAMBDA x : x.c \in {"index", "read"})
  IN  [n \in 1..Len(calls) |-> <<calls[n].c, calls[n].id>>]
\* the number of read calls before position i
ReadsBefore(s, i) == Len(SelectSeq(SubSeq(s, 1, i - 1), LAMBDA x : x.c = "read"))
\* index() has succeeded before position i
Indexed(s, i) == \E j \in 1..(i - 1) : s[j].c = "index" /\ s[j].r = "ok"

\* C25: between two rewinds the Source calls index() on every pull until it
\* has succeeded and never again, then issues one read per pull, of the
\* identifiers of the list in their order, each once, and once the list is
\* exhausted answers EOF with no storage call; the first pull after a rewind
\* calls index() again
C25_SourceReadsListOnce ==
  LET s == SourceLog
      ids == StoreIds(store)
  IN  \A i \in 1..Len(s) :
        s[i].c = "pull"
          => IF ~Indexed(s, i)
             THEN \/ /\ PullCalls(s, i) = <<<<"index", "">>>>
                     /\ \/ s[i + 1].r = "err"
                        \/ ids = << >> /\ s[PullEnd(s, i)].r = "eof"
                  \/ /\ ids # << >>
                     /\ PullCalls(s, i) = <<<<"index", "">>, <<"read", ids[1]>>>>
                     /\ s[i + 1].r = "ok"
             ELSE IF ReadsBefore(s, i) < Len(ids)
             THEN PullCalls(s, i) = <<<<"read", ids[ReadsBefore(s, i) + 1]>>>>
             ELSE /\ PullCalls(s, i) = << >>
                  /\ s[PullEnd(s, i)].r = "eof"

\* a Source alone has been pulled until after its list was exhausted: one
\* index, a read of each identifier and a last pull with no storage call
C25_Witness ==
  /\ Len(cur.ch) = 1
  /\ Len(SelectSeq(SourceLog, LAMBDA x : x.c = "index")) = 1
  /\ Len(SelectSeq(SourceLog, LAMBDA x : x.c = "read")) = Len(store)
  /\ Len(SelectSeq(SourceLog, LAMBDA x : x.c = "pull")) = Len(store) + 2

\* what the log says of stage k: the pulls it received, its answers, and the
\* pulls it issued to its upstream
StageLog(k) ==
  SelectSeq(first.list,
            LAMBDA x : (x.c \in {"pull", "answer"} /\ x.k = k)
                         \/ (x.c = "pull" /\ x.k = k - 1))
\* the number of entries of s that are c of stage k
Tally(s, c, k) == Len(SelectSeq(s, LAMBDA x : x.c = c /\ x.k = k))
\* the position of the answer of stage k to the pull at position i
AnswerAt(s, i, k) ==
  CHOOSE j \in (i + 1)..Len(s) :
    /\ s[j].c = "answer" /\ s[j].k = k
    /\ \A n \in (i + 1)..(j - 1) : ~(s[n].c = "answer" /\ s[n].k = k)

\* C26: between two rewinds a Limit with limit L issues at most L pulls to
\* its upstream and delivers at most L documents: each of its first L pulls
\* issues one upstream pull, every later one issues none and is answered
\* with EOF
C26_LimitStopsAtL ==
  \A k \in 2..Len(cur.ch) :
    cur.ch[k].kind = "Limit"
      => LET s == StageLog(k)
             L == cur.ch[k].n
         IN  /\ Tally(s, "pull", k - 1) <= L
             /\ Len(SelectSeq(s, LAMBDA x : x.c = "answer" /\ x.k = k /\ x.r = "item")) <= L
             /\ \A i \in 1..Len(s) :
                  (s[i].c = "pull" /\ s[i].k = k)
                    => LET turn == SubSeq(s, i, AnswerAt(s, i, k))
                       IN  IF Tally(SubSeq(s, 1, i), "pull", k) <= L
                           THEN Tally(turn, "pull", k - 1) = 1
                           ELSE /\ Tally(turn, "pull", k - 1) = 0
                                /\ turn[Len(turn)].r = "eof"

\* a Limit with limit 1 over a longer list has delivered one document and
\* answered two more pulls with EOF
C26_Witness ==
  /\ Len(cur.ch) = 2
  /\ cur.ch[2].kind = "Limit"
  /\ cur.ch[2].n = 1
  /\ Len(SelectSeq(StageLog(2), LAMBDA x : x.c = "answer" /\ x.r = "item")) = 1
  /\ Len(SelectSeq(StageLog(2), LAMBDA x : x.c = "answer" /\ x.r = "eof")) = 2
  /\ Tally(StageLog(2), "pull", 1) = 1

\* the documents stage k has answered with, in order
Delivered(k) ==
  LET a == SelectSeq(first.list, LAMBDA x : x.c = "answer" /\ x.k = k /\ x.r = "item")
  IN  [i \in 1..Len(a) |-> a[i].doc]

\* C27: between two rewinds an Offset with offset n discards exactly the
\* first min(n, number of upstream documents) documents of its upstream and
\* passes every later one through, unchanged and in order, whatever the
\* upstream answers (documents, errors, EOF)
C27_OffsetSkipsOnce ==
  \A k \in 2..Len(cur.ch) :
    cur.ch[k].kind = "Offset"
      => LET up == Delivered(k - 1)
             skipped == IF cur.ch[k].n <= Len(up) THEN cur.ch[k].n ELSE Len(up)
         IN  Delivered(k) = SubSeq(up, skipped + 1, Len(up))

(***************************************************************************)
(* Claims about each, checked under SpecEach                               *)
(***************************************************************************)
\* what the each that just ran added to the log
EachLog == SubSeq(first'.list, Len(first.list) + 1, Len(first'.list))
\* the invocations of its callback
Callbacks == SelectSeq(EachLog, LAMBDA x : x.c = "callback")
\* a is the beginning of b
IsPrefix(a, b) == Len(a) <= Len(b) /\ a = SubSeq(b, 1, Len(a))

MaxTurnOps == 2
MaxAsyncDocs == 2

\* a closure: f is the function, k the stage that created it (the Cursor is
\* Len(ch) + 1), rest and buf its captured variables and cb the callback
\* captured by the helper toArray
Frame(f, k, rest, buf, cb) ==
  [f |-> f, k |-> k, rest |-> rest, buf |-> buf, cb |-> cb]
Request(op, c, id, frames) == [op |-> op, c |-> c, id |-> id, frames |-> frames]

\* what a callback is invoked with
Ans(k, doc, e, list) == [k |-> k, doc |-> doc, e |-> e, list |-> list]

\* a turn: the Cursor, the storage calls made in the turn and the
\* invocations of the callbacks of terminal operations, in order
Turn(c, tie) == [c |-> c, tie |-> tie, reqs |-> << >>, outs |-> << >>]

\* collection.index(callback) and collection.read(id, callback) return at once
Issue(x, op, c, id, frames) ==
  [x EXCEPT !.reqs = Append(@, Request(op, c, id, frames))]

\* the callback of the terminal operation op is invoked; memo is
\* this._toArray at that moment
Callback(x, op, cb, k, list, num, e) ==
  [x EXCEPT !.outs = Append(@, [op |-> op, cb |-> cb, k |-> k, list |-> list,
                                num |-> num, e |-> e,
                                hasArr |-> x.c.hasArr, arr |-> x.c.arr])]

\* the callback of Cursor.prototype.toArray leaving this._toArray alone
MemoizeNothing(x, list) == x

\* self._toArray = list
Memoize(x, list) == [x EXCEPT !.c.hasArr = TRUE, !.c.arr = list]

RECURSIVE Pull(_, _, _, _)
RECURSIVE Resume(_, _, _, _)

\* Source.prototype.nextObject reading two identifiers at once
SourcePullAhead(x, op, frames) ==
  LET s == x.c.ch[1]
  IN  IF s.has
      THEN IF Len(s.ids) = 0 THEN Resume(x, op, frames, Ans("eof", NoDoc, "", << >>))
           ELSE IF Len(s.ids) = 1
           THEN Issue([x EXCEPT !.c.ch[1].ids = Tail(@)], op, "read", Head(s.ids), frames)
           ELSE Issue(Issue([x EXCEPT !.c.ch[1].ids = Tail(Tail(@))],
                            op, "read", s.ids[1], frames),
                      op, "read", s.ids[2], frames)
      ELSE Issue(x, op, "index", "", <<Frame("index", 1, 0, << >>, "")>> \o frames)

\* Source.prototype.nextObject
SourcePull(x, op, frames) ==
  LET s == x.c.ch[1]
  IN  IF s.has
      THEN IF Len(s.ids) = 0 THEN Resume(x, op, frames, Ans("eof", NoDoc, "", << >>))
           ELSE Issue([x EXCEPT !.c.ch[1].ids = Tail(@)], op, "read", Head(s.ids), frames)
      ELSE Issue(x, op, "index", "", <<Frame("index", 1, 0, << >>, "")>> \o frames)

\* stage k's nextObject(callback), the callback being the innermost of frames
Pull(x, op, k, frames) ==
  LET s == x.c.ch[k]
  IN  CASE s.kind = "Source" -> SourcePull(x, op, frames)
        [] s.kind = "Condition" ->
             IF TypeOf(s.fn) # "function"
             THEN Resume(x, op, frames,
                         Ans("err", NoDoc, "invalid condition: " \o ToStr(s.fn), << >>))
             ELSE Pull(x, op, k - 1, <<Frame("next", k, 0, << >>, "")>> \o frames)
        [] s.kind = "Projection" ->
             IF TypeOf(s.fn) # "function"
             THEN Resume(x, op, frames,
                         Ans("err", NoDoc, "invalid projection: " \o ToStr(s.fn), << >>))
             ELSE Pull(x, op, k - 1, <<Frame("view", k, 0, << >>, "")>> \o frames)
        [] s.kind = "Sort" ->
             IF s.err # "" THEN Resume(x, op, frames, Ans("err", NoDoc, s.err, << >>))
             ELSE IF s.has
             THEN IF s.docs = << >>
                  THEN Resume(x, op, frames, Ans("eof", NoDoc, "", << >>))
                  ELSE Resume([x EXCEPT !.c.ch[k].docs = Tail(@)], op, frames,
                              Ans("item", Head(s.docs), "", << >>))
             ELSE Pull(x, op, k - 1, <<Frame("iterator", k, 0, << >>, "Sort")>> \o frames)
        [] s.kind = "Offset" ->
             IF s.ready \/ s.n <= 0 THEN Pull(x, op, k - 1, frames)
             ELSE Pull(x, op, k - 1, <<Frame("skip", k, s.n, << >>, "")>> \o frames)
        [] s.kind = "Limit" ->
             IF s.rest > 0 THEN Pull([x EXCEPT !.c.ch[k].rest = @ - 1], op, k - 1, frames)
             ELSE Resume([x EXCEPT !.c.ch[k].rest = @ - 1], op, frames,
                         Ans("eof", NoDoc, "", << >>))

\* the innermost callback of frames is invoked with the answer r
Resume(x, op, frames, r) ==
  LET f == Head(frames)
      up == Tail(frames)
  IN  CASE f.f = "index" ->
             \* the callback Source.prototype.nextObject gives to index
             IF r.k = "err" THEN Resume(x, op, up, r)
             ELSE Pull([x EXCEPT !.c.ch[1].has = TRUE, !.c.ch[1].ids = r.list],
                       op, 1, up)
        [] f.f = "next" ->
             \* next of Condition.prototype.nextObject
             IF r.k # "item" THEN Resume(x, op, up, r)
             ELSE IF ApplyWhere(x.c.ch[f.k].fn, r.doc) THEN Resume(x, op, up, r)
             ELSE Pull(x, op, f.k - 1, frames)
        [] f.f = "view" ->
             \* the callback of Projection.prototype.nextObject
             IF r.k # "item" THEN Resume(x, op, up, r)
             ELSE Resume(x, op, up,
                         Ans("item", ApplyView(x.c.ch[f.k].fn, r.doc), "", << >>))
        [] f.f = "skip" ->
             \* iterator of Offset.prototype.nextObject
             IF r.k # "item" THEN Resume(x, op, up, r)
             ELSE IF f.rest - 1 > 0
             THEN Pull(x, op, f.k - 1, <<[f EXCEPT !.rest = @ - 1]>> \o up)
             ELSE Pull([x EXCEPT !.c.ch[f.k].ready = TRUE], op, f.k - 1, up)
        [] f.f = "iterator" /\ r.k = "item" ->
             \* iterator of the helper toArray: buf.push(item)
             Pull(x, op, f.k - 1, <<[f EXCEPT !.buf = Append(@, r.doc)]>> \o up)
        [] f.f = "iterator" /\ r.k # "item" /\ f.cb = "Sort" ->
             \* the callback Sort.prototype.nextObject gives to toArray
             IF r.k = "err" THEN Resume(x, op, up, r)
             ELSE Pull([x EXCEPT !.c.ch[f.k].has = TRUE,
                                 !.c.ch[f.k].docs =
                                    ArraySort(f.buf, x.c.ch[f.k].fn, x.tie)],
                       op, f.k, up)
        [] f.f = "iterator" /\ r.k # "item" /\ f.cb # "Sort" ->
             \* the callback Cursor.prototype.toArray gives to toArray, and
             \* on top of it the one of Cursor.prototype.count
             IF r.k = "err" THEN Callback(x, op, f.cb, "err", << >>, 0, r.e)
             ELSE Callback(Memoize(x, f.buf), op, f.cb, "ok", f.buf, Len(f.buf), "")
        [] f.f = "each" ->
             \* iterator of Cursor.prototype.each
             IF r.k = "item"
             THEN Pull(Callback(x, op, "each", "item", <<r.doc>>, 0, ""),
                       op, f.k - 1, frames)
             ELSE Callback(x, op, "each", r.k, << >>, 0, r.e)
        [] f.f = "count" ->
             \* the callback Cursor.prototype.index gives to collection.index,
             \* and on top of it the one of Cursor.prototype.count
             IF r.k = "err" THEN Callback(x, op, "count", "err", << >>, 0, r.e)
             ELSE Callback([x EXCEPT !.c.hasIndex = TRUE, !.c.idx = r.list],
                           op, "count", "ok", << >>, Len(r.list), "")

\* Cursor.prototype.toArray, and Cursor.prototype.count calling it (cb)
ToArrayCall(x, op, cb) ==
  IF x.c.err # "" THEN Callback(x, op, cb, "err", << >>, 0, x.c.err)
  ELSE IF x.c.hasArr THEN Callback(x, op, cb, "ok", x.c.arr, Len(x.c.arr), "")
  ELSE Pull(x, op, Len(x.c.ch),
            <<Frame("iterator", Len(x.c.ch) + 1, 0, << >>, cb)>>)

\* Cursor.prototype.each
EachCall(x, op) ==
  IF x.c.err # "" THEN Callback(x, op, "each", "err", << >>, 0, x.c.err)
  ELSE Pull(x, op, Len(x.c.ch), <<Frame("each", Len(x.c.ch) + 1, 0, << >>, "")>>)

\* Cursor.prototype.count, and Cursor.prototype.index under it
CountCall(x, op) ==
  IF x.c.err # "" THEN Callback(x, op, "count", "err", << >>, 0, x.c.err)
  ELSE IF Len(x.c.ch) # 1 THEN ToArrayCall(x, op, "count")
  ELSE IF x.c.hasIndex
  THEN Callback(x, op, "count", "ok", << >>, Len(x.c.idx), "")
  ELSE Issue(x, op, "index", "", <<Frame("count", 1, 0, << >>, "")>>)

(***************************************************************************)
(* SpecAsync: a Cursor over a store whose storage answers in later turns.  *)
(* Terminal operations are started on the Cursor at any time, also while   *)
(* earlier ones wait for the storage; the storage answers the calls in     *)
(* flight in any order, and any of them with an error.  args holds the     *)
(* calls in flight, muts the number of operations started, and first the   *)
(* history: the operations started (ops: which, and the operations         *)
(* unfinished at that time), the last callback of every completed          *)
(* operation (outs), the number of index() calls of the Source (indexed)   *)
(* and whether a storage call failed.  The callbacks each receives with a  *)
(* document are not recorded, and last is not used.                        *)
(***************************************************************************)

\* find(), find().offset(1), find().limit(1), find({price: 1}).sort({price: 1})
AsyncCursors ==
  {Cursor(Arg(Undef), Arg(Undef)),
   CursorOffset(Cursor(Arg(Undef), Arg(Undef)), 1),
   CursorLimit(Cursor(Arg(Undef), Arg(Undef)), 1),
   CursorSort(Cursor(ObjArg(<<KV("price", Num(1))>>), Arg(Undef)),
              ObjArg(<<KV("price", Num(1))>>))}

InitAsync ==
  /\ store = InitStore(MaxAsyncDocs)
  /\ cur \in AsyncCursors
  /\ args = << >>
  /\ last = << >>
  /\ first = [ops |-> << >>, outs |-> << >>, indexed |-> 0, failed |-> FALSE]
  /\ muts = 0

\* the Source has called index()
SourceIndex(q) == q.c = "index" /\ Head(q.frames).f = "index"

\* the operations that have not invoked their callback for the last time
Finished(outs, op) == \E i \in 1..Len(outs) : outs[i].op = op /\ outs[i].k # "item"
Unfinished == {op \in 1..muts : ~Finished(first.outs, op)}

\* the records of list, those of operation 1 first, then those of 2, ...
RECURSIVE ByOp(_, _)
ByOp(list, op) ==
  IF op > MaxTurnOps THEN << >>
  ELSE SelectSeq(list, LAMBDA q : q.op = op) \o ByOp(list, op + 1)

\* the turn x has run: starting operation cb (started) or answering call i
Yield(x, started, cb, i, failed) ==
  /\ cur' = x.c
  /\ args' = ByOp([j \in 1..Len(args) |-> IF j = i THEN Request(0, "", "", << >>)
                                          ELSE args[j]] \o x.reqs, 1)
  /\ last' = last
  /\ first' = [ops |-> IF started
                       THEN Append(first.ops, [cb |-> cb, open |-> Unfinished])
                       ELSE first.ops,
               outs |-> ByOp(first.outs \o SelectSeq(x.outs, LAMBDA o : o.k # "item"), 1),
               indexed |-> first.indexed + Len(SelectSeq(x.reqs, SourceIndex)),
               failed |-> first.failed \/ failed]
  /\ muts' = IF started THEN muts + 1 ELSE muts
  /\ UNCHANGED store

\* an operation is started: no Sort sorts documents in that turn
ToArrayTurn ==
  /\ muts < MaxTurnOps
  /\ Yield(ToArrayCall(Turn(cur, FALSE), muts + 1, "toArray"), TRUE, "toArray", 0, FALSE)

EachTurn ==
  /\ muts < MaxTurnOps
  /\ Yield(EachCall(Turn(cur, FALSE), muts + 1), TRUE, "each", 0, FALSE)

CountTurn ==
  /\ muts < MaxTurnOps
  /\ Yield(CountCall(Turn(cur, FALSE), muts + 1), TRUE, "count", 0, FALSE)

\* the answer of the storage to the call q
Answer4(q, ok) ==
  IF ~ok THEN Ans("err", NoDoc, "StorageFailure", << >>)
  ELSE IF q.c = "index" THEN Ans("list", NoDoc, "", StoreIds(store))
  ELSE IF StoreHas(store, q.id) THEN Ans("item", StoreGet(store, q.id), "", << >>)
  ELSE Ans("err", NoDoc, "Item not found", << >>)

\* how a Sort of the chain, if there is one, orders equal documents
Ties == {FALSE} \cup {tie \in {TRUE} : \E k \in 1..Len(cur.ch) : cur.ch[k].kind = "Sort"}

\* the storage answers one of the calls in flight
AnswerTurn ==
  \E i \in 1..Len(args), tie \in Ties, ok \in BOOLEAN :
    Yield(Resume(Turn(cur, tie), args[i].op, args[i].frames, Answer4(args[i], ok)),
          FALSE, "", i, ~ok)

NextAsync == ToArrayTurn \/ EachTurn \/ CountTurn \/ AnswerTurn
SpecAsync == InitAsync /\ [][NextAsync]_vars

(***************************************************************************)
(* C29.  The pulls of one terminal operation are sequential: at every      *)
(* moment at most one storage call made on behalf of the operation is in   *)
(* flight, and among the callbacks waiting for its answer there is at most *)
(* one per stage, so no stage has pulled its upstream again while an       *)
(* earlier pull of the same operation is unanswered.  This holds for every *)
(* chain, also while another operation is running on the same Cursor.      *)
(***************************************************************************)
InFlight(op) == SelectSeq(args, LAMBDA q : q.op = op)
Waiting(q, k) == SelectSeq(q.frames, LAMBDA f : f.k = k)

C29_PullsAreSequential ==
  \A op \in 1..MaxTurnOps :
    /\ Len(InFlight(op)) <= 1
    /\ \A i \in 1..Len(args) : \A k \in 1..(Len(cur.ch) + 1) :
         Len(Waiting(args[i], k)) <= 1

\* an operation over a chain with a filtering Condition and another stage
\* waits for a read in the middle of its drain, the Condition and the
\* operation both waiting for the answer
C29_Witness ==
  \E i \in 1..Len(args) :
    /\ args[i].c = "read"
    /\ Len(args[i].frames) >= 2
    /\ Len(cur.ch) >= 3
    /\ \E n \in 1..Len(args[i].frames) : args[i].frames[n].buf # << >>

(***************************************************************************)
(* C30.  Two drains of one Cursor that run at the same time are not safe.  *)
(* Whenever a toArray was started before an earlier toArray of the same    *)
(* Cursor had completed, the storage answered every call and the Cursor    *)
(* has documents to deliver, then once both have completed either the      *)
(* Source has called index() more than once, or a successful toArray       *)
(* callback has received, and toArray has memoized, a list that is not the *)
(* complete result set.                                                    *)
(***************************************************************************)
\* the stages as rewind() leaves them
Rewound(ch) == [k \in 1..Len(ch) |-> StageRewind(ch[k])]

\* what one drain of the Cursor alone delivers
CompleteLists == {Pulls(Rewound(cur.ch), tie).list : tie \in BOOLEAN}

\* toArray j was started while toArray i had not completed
Overlap(i, j) ==
  /\ first.ops[i].cb = "toArray" /\ first.ops[j].cb = "toArray"
  /\ i \in first.ops[j].open

\* a successful toArray callback received, and toArray memoized, a list that
\* is not the complete result set
Short(out) ==
  /\ out.cb = "toArray" /\ out.k = "ok"
  /\ out.list \notin CompleteLists
  /\ out.hasArr /\ out.arr = out.list

C30_ConcurrentDrainsUnsafe ==
  \A i, j \in 1..Len(first.ops) :
    (/\ Overlap(i, j)
     /\ Finished(first.outs, i) /\ Finished(first.outs, j)
     /\ ~first.failed
     /\ CompleteLists # {<< >>})
    => \/ first.indexed > 1
       \/ \E n \in 1..Len(first.outs) : Short(first.outs[n])

\* two overlapping drains shared one identifier list: index() was called
\* once, both callbacks were successful and one received a short list
C30_Witness ==
  \E i, j \in 1..Len(first.ops) :
    /\ Overlap(i, j)
    /\ Len(cur.ch) = 1
    /\ ~first.failed
    /\ first.indexed = 1
    /\ \A n \in 1..Len(first.outs) : first.outs[n].k = "ok"
    /\ Len(first.outs) = 2
    /\ \E n \in 1..Len(first.outs) :
         Short(first.outs[n]) /\ first.outs[n].list # << >>

(***************************************************************************)
(* SpecLatch: find() over a store, up to MaxChain stages chained onto it,  *)
(* then the terminal operations and rewind.                                *)
(***************************************************************************)
InitLatch ==
  /\ store = InitStore(MaxDocs)
  /\ args = [condition |-> Arg(Undef), projection |-> Arg(Undef), chain |-> << >>]
  /\ cur = Cursor(args.condition, args.projection)
  /\ last = Quiet("new")
  /\ first = [has |-> FALSE, list |-> << >>]
  /\ muts = 0

NextLatch ==
  \/ ChainSort
  \/ ChainOffset
  \/ ChainLimit
  \/ ToArrayOp
  \/ EachOp
  \/ CountOp
  \/ RewindOp

SpecLatch == InitLatch /\ [][NextLatch]_vars

\* the Sort stages of the chain whose order failed to compile
FailedSorts(c) == {k \in 1..Len(c.ch) : c.ch[k].kind = "Sort" /\ c.ch[k].err # ""}

(***************************************************************************)
(* C31.  Once sort(order) was called with an order that fails to compile,  *)
(* every toArray, each and count on the Cursor reports that error, never   *)
(* success, and makes no storage call, whatever was chained after the      *)
(* sort.                                                                   *)
(***************************************************************************)
C31_FailedSortLatched ==
  (FailedSorts(cur) # {} /\ last.op \in {"toArray", "each", "count"})
  => /\ last.k = "err"
     /\ \E k \in FailedSorts(cur) : last.e = cur.ch[k].err
     /\ last.calls = 0

(***************************************************************************)
(* SpecStore: one instance with the memory storage, with or without a      *)
(* namespace and with either escape.  Identifiers are any strings; up to   *)
(* MaxWrites writes and erases are made, and read, exist and index are     *)
(* called at any time.  store is SharedStore, cur the instance (cur[1]),   *)
(* last the call made and its answer, and first.list the items written and *)
(* not erased since, as pairs of identifier and item.                      *)
(***************************************************************************)
InitStoreOps ==
  /\ store = << >>
  /\ cur \in {<<[NewInstance(ns) EXCEPT !.plain = plain]>> :
                ns \in {"", "x"}, plain \in BOOLEAN}
  /\ args = << >>
  /\ last = Quiet("new")
  /\ first = [has |-> FALSE, list |-> << >>]
  /\ muts = 0

StoreWriteOp ==
  /\ muts < MaxWrites
  /\ \E id \in AnyIds, item \in MemItems :
       /\ Answered("write", 1, id, item, memoryWrite(store, cur[1], id, item))
       /\ first' = [has |-> TRUE,
                    list |-> Append(OwnDelete(first.list, id), KV(id, item))]
  /\ muts' = muts + 1

StoreEraseOp ==
  /\ muts < MaxWrites
  /\ \E id \in AnyIds :
       /\ Answered("erase", 1, id, Undef, memoryErase(store, cur[1], id))
       /\ first' = [first EXCEPT !.list = OwnDelete(@, id)]
  /\ muts' = muts + 1

StoreReadOp ==
  /\ \E id \in AnyIds : Answered("read", 1, id, Undef, memoryRead(store, cur[1], id))
  /\ UNCHANGED <<first, muts>>

StoreExistOp ==
  /\ \E id \in AnyIds : Answered("exist", 1, id, Undef, memoryExist(store, cur[1], id))
  /\ UNCHANGED <<first, muts>>

StoreIndexOp ==
  /\ Answered("index", 1, "", Undef, memoryIndex(store, cur[1]))
  /\ UNCHANGED <<first, muts>>

NextStoreOps ==
  \/ StoreWriteOp
  \/ StoreEraseOp
  \/ StoreReadOp
  \/ StoreExistOp
  \/ StoreIndexOp

SpecStore == InitStoreOps /\ [][NextStoreOps]_vars

\* the identifiers written and not erased since (S), and what was written last
Written(list) == {id \in AnyIds : OwnHas(list, id)}
WrittenItem(list, id) == OwnGet(list, id)

\* what read, exist and index answer for id when they agree with S
Agreed(list, id) ==
  IF id \in Written(list)
  THEN [e |-> "", item |-> <<WrittenItem(list, id)>>, exists |-> TRUE, listed |-> TRUE]
  ELSE [e |-> "Item not found", item |-> << >>, exists |-> FALSE, listed |-> FALSE]

(***************************************************************************)
(* C32.  After any sequence of writes and erases, exist, read and index    *)
(* agree with the set S of the identifiers written and not erased since:   *)
(* exist(id) is true iff id is in S, read(id) delivers the item written    *)
(* last iff id is in S and reports 'Item not found' otherwise, index()     *)
(* lists exactly S; and erase(id) of an id not in S reports 'Item not      *)
(* found' and leaves the store as it was.                                  *)
(***************************************************************************)
C32_ObserversAgree ==
  [][/\ \A id \in AnyIds : Observed(store', cur', 1, id) = Agreed(first'.list, id)
     /\ Len(memoryIndex(store', cur'[1]).list) = Cardinality(Written(first'.list))
     /\ (last'.op = "erase" /\ last'.ids[1] \notin Written(first.list))
          => /\ last'.e = "Item not found"
             /\ \A id \in AnyIds :
                  Observed(store', cur', 1, id) = Observed(store, cur, 1, id)]_vars

=============================================================================
